---- MODULE Spec2Model ----
(***************************************************************************)
(* A model of the tavily_data_pipline repository: the record-shaping       *)
(* transform (src/pipeline/metadata_streamer.py), the Firehose relay       *)
(* (src/pipeline/firehose_client.py), the research agent                   *)
(* (src/agent/toy_agent.py), the metadata collector                        *)
(* (src/agent/metadata_collector.py) and the command-line pipeline         *)
(* (scripts/run_agent.py).                                                 *)
(*                                                                         *)
(* Encoding of Python values.  A dict is a TLA+ function whose DOMAIN is   *)
(* the set of keys present, so a missing key is a key outside the DOMAIN.  *)
(* None is "<None>" in string-valued fields, -1 in number-valued fields    *)
(* and <<"none">> in timestamp fields.  A timestamp is <<"dt", t>> (a      *)
(* datetime object), <<"iso", t>> (an ISO-8601 string) or <<"empty">>      *)
(* (the empty string).  A uuid4 string is the value of a counter.          *)
(***************************************************************************)
EXTENDS Integers, Sequences, FiniteSets, TLC

VARIABLES
    \* ---- shaping transform (metadata_streamer.py) ----
    doc,        \* the metadata document handed to the transform
    outs,       \* the outputs of the successive _metadata_to_records calls
    now,        \* the wall clock (datetime.utcnow())
    uuidCtr,    \* number of uuid4 values drawn so far
    \* ---- FirehoseClient.send_batch (firehose_client.py) ----
    records,     \* the list handed to send_batch
    max_retries, \* FirehoseClient.max_retries
    sb_pc,       \* "idle", "start", "batch", "done" (returned), "raised"
    sb_i,        \* start index of the current batch (the loop variable i)
    attempt,     \* the inner loop variable
    sent,        \* the local counter sent
    puts,        \* the put_record_batch calls of the current send_batch call
    accepted,    \* the positions in records of the records the delivery
                 \* stream has accepted during the current send_batch call
    sb_ret,      \* the value returned (-1 before the return)
    sb_exc,      \* the exception raised ("" when none)
    batch_size,  \* MetadataStreamer.batch_size of the calling streamer
    \* ---- main / run_research (run_agent.py), research (toy_agent.py) ----
    pc,          \* the position of main / run_research / research
    components,  \* the components constructed on their own, and their use
    qry,         \* the last date-range query of the store and its result
    stream_op,   \* the operation of a MetadataStreamer used on its own
    wire,        \* the records the stream accepted in such operations
    metadata_history, \* MetadataCollector.metadata_history of a collector
                      \* used by track_execution
    wrapped,     \* the last call of a function wrapped by track_execution
    flags,       \* the command-line flags
    env,         \* the configuration found in the environment
    state,       \* the ResearchState of research()
    fmt,         \* the formatted results of the searches (overview + competitors)
    metadata,    \* the metadata dict of the run
    result,      \* the result dict of run_research
    store,       \* the MongoDB collection
    stages,      \* the start and end of every stage run so far
    raisedIn,    \* the stages in which an exception was raised
    extcalls,    \* the external calls research() made, with their outcome
    exit_code,   \* what main returns (-1 before)
    start_time   \* start_time of run_research

shapeVars == <<doc, outs, now, uuidCtr>>

sendVars == <<records, max_retries, sb_pc, sb_i, attempt, sent, puts, accepted,
              sb_ret, sb_exc, batch_size>>

trackVars == <<metadata_history, wrapped>>

auxVars == <<components, qry, stream_op, wire, metadata_history, wrapped>>

runVars == <<pc, components, qry, stream_op, wire, metadata_history, wrapped,
             flags, env, state, fmt, metadata, result, store,
             stages, raisedIn, extcalls, exit_code, start_time>>

vars == <<doc, outs, now, uuidCtr,
          records, max_retries, sb_pc, sb_i, attempt, sent, puts, accepted,
          sb_ret, sb_exc, batch_size,
          pc, components, qry, stream_op, wire, metadata_history, wrapped,
          flags, env, state, fmt, metadata, result, store,
          stages, raisedIn, extcalls, exit_code, start_time>>

(***************************************************************************)
(* Bounds of the model.                                                    *)
(***************************************************************************)
MaxSteps == 2
MaxCalls == 2
MaxClock == 1
MaxTransforms == 2
MaxRecords == 51
MaxRetries == 3
MaxResults == 1
MaxStored == 1
MaxRaw == 2
MaxSparse == 1
MaxQueryTime == 3
MaxLimit == 2
MaxOps == 2
MaxTracked == 3

\* batch_size = 25, a local of send_batch (MetadataStreamer.batch_size is
\* stored by the constructor and never read)
BatchSize == 25

\* the default of FirehoseClient's max_retries parameter
DefaultMaxRetries == 3

(***************************************************************************)
(* Python values.                                                          *)
(***************************************************************************)
None == "<None>"
NoneN == -1
NoneT == <<"none">>
EmptyT == <<"empty">>

\* dict.get(k, dflt)
Get(d, k, dflt) == IF k \in DOMAIN d THEN d[k] ELSE dflt

\* truthiness of an optional string: None and "" are falsy
Truthy(v) == v # None /\ v # ""

\* truthiness of a timestamp value: None and "" are falsy
TruthyT(v) == v # NoneT /\ v # EmptyT

\* Python's `a or b` on timestamp values
OrT(a, b) == IF TruthyT(a) THEN a ELSE b

\* sequences of length 0..n over S
SeqUpTo(S, n) == UNION {[1..k -> S] : k \in 0..n}

(***************************************************************************)
(* metadata_streamer.py: record builders.                                  *)
(***************************************************************************)
\* (mutant) the current time whatever the input carries
ensure_ts_now(ts, t) == <<"iso", t>>

\* _ensure_ts: ISO string for a datetime, the current time for None, str(ts)
\* otherwise.  t is the value datetime.utcnow() returns if it is read.
ensure_ts(ts, t) ==
    CASE ts[1] = "dt" -> <<"iso", ts[2]>>
      [] ts = NoneT -> <<"iso", t>>
      [] OTHER -> ts

\* (mutant) total_api_calls counted from the api_calls list alone
to_agent_run_len_only(d, tS, tC) ==
    [ record_type |-> "agent_run",
      run_id |-> Get(d, "event_id", None),
      company_name |-> Get(d, "company_name", Get(d, "query", None)),
      industry |-> Get(d, "industry", None),
      status |-> Get(d, "status", None),
      started_at |-> ensure_ts(OrT(Get(d, "started_at_utc", NoneT),
                                   Get(d, "timestamp_utc", NoneT)), tS),
      completed_at |-> ensure_ts(OrT(Get(d, "completed_at_utc", NoneT),
                                     Get(d, "timestamp_utc", NoneT)), tC),
      total_latency_ms |-> Get(d, "latency_ms", NoneN),
      total_api_calls |-> Len(Get(d, "api_calls", <<>>)),
      error_message |-> Get(d, "error_message", None) ]

\* _to_agent_run; tS and tC are the clock readings of its two _ensure_ts calls
to_agent_run(d, tS, tC) ==
    LET api_calls == Get(d, "api_calls", <<>>)
    IN [ record_type |-> "agent_run",
         run_id |-> Get(d, "event_id", None),
         company_name |-> Get(d, "company_name", Get(d, "query", None)),
         industry |-> Get(d, "industry", None),
         status |-> Get(d, "status", None),
         started_at |-> ensure_ts(OrT(Get(d, "started_at_utc", NoneT),
                                      Get(d, "timestamp_utc", NoneT)), tS),
         completed_at |-> ensure_ts(OrT(Get(d, "completed_at_utc", NoneT),
                                        Get(d, "timestamp_utc", NoneT)), tC),
         total_latency_ms |-> Get(d, "latency_ms", NoneN),
         total_api_calls |-> IF Len(api_calls) > 0 THEN Len(api_calls)
                             ELSE Get(d, "num_sources", 0),
         error_message |-> Get(d, "error_message", None) ]

\* (mutant) run_id looked up in the step entry instead of the document
step_to_run_step_norun(d, step, u) ==
    [ record_type |-> "run_step",
      step_id |-> u,
      run_id |-> Get(step, "event_id", None),
      step_name |-> Get(step, "step_name", "research"),
      status |-> Get(step, "status", Get(d, "status", None)),
      latency_ms |-> Get(step, "latency_ms", Get(d, "latency_ms", NoneN)),
      error_message |-> Get(step, "error", None) ]

\* _step_to_run_step; u is the uuid4 drawn for step_id
step_to_run_step(d, step, u) ==
    [ record_type |-> "run_step",
      step_id |-> u,
      run_id |-> Get(d, "event_id", None),
      step_name |-> Get(step, "step_name", "research"),
      status |-> Get(step, "status", Get(d, "status", None)),
      latency_ms |-> Get(step, "latency_ms", Get(d, "latency_ms", NoneN)),
      error_message |-> Get(step, "error", None) ]

\* (mutant) results_returned read from the call entry alone
call_to_api_call_entry_only(d, call, u, t) ==
    [ record_type |-> "api_call",
      call_id |-> u,
      run_id |-> Get(d, "event_id", None),
      query_used |-> Get(call, "query", Get(d, "query", None)),
      results_returned |-> Get(call, "results_returned", NoneN),
      latency_ms |-> Get(call, "latency_ms", Get(d, "latency_ms", NoneN)),
      called_at |-> ensure_ts(OrT(Get(call, "called_at", NoneT),
                                  Get(d, "timestamp_utc", NoneT)), t) ]

\* _call_to_api_call; u is the uuid4 drawn for call_id, t the clock reading
call_to_api_call(d, call, u, t) ==
    [ record_type |-> "api_call",
      call_id |-> u,
      run_id |-> Get(d, "event_id", None),
      query_used |-> Get(call, "query", Get(d, "query", None)),
      results_returned |-> Get(call, "results_returned", Get(d, "num_sources", 0)),
      latency_ms |-> Get(call, "latency_ms", Get(d, "latency_ms", NoneN)),
      called_at |-> ensure_ts(OrT(Get(call, "called_at", NoneT),
                                  Get(d, "timestamp_utc", NoneT)), t) ]

\* _flat_to_run_step
flat_to_run_step(d, u) ==
    [ record_type |-> "run_step",
      step_id |-> u,
      run_id |-> Get(d, "event_id", None),
      step_name |-> "research",
      status |-> Get(d, "status", None),
      latency_ms |-> Get(d, "latency_ms", NoneN),
      error_message |-> Get(d, "error_message", None) ]

\* (mutant) a synthesized call that reports no results
flat_to_api_call_no_results(d, u, t) ==
    [ record_type |-> "api_call",
      call_id |-> u,
      run_id |-> Get(d, "event_id", None),
      query_used |-> Get(d, "query", None),
      results_returned |-> 0,
      latency_ms |-> Get(d, "latency_ms", NoneN),
      called_at |-> ensure_ts(Get(d, "timestamp_utc", NoneT), t) ]

\* _flat_to_api_call
flat_to_api_call(d, u, t) ==
    [ record_type |-> "api_call",
      call_id |-> u,
      run_id |-> Get(d, "event_id", None),
      query_used |-> Get(d, "query", None),
      results_returned |-> Get(d, "num_sources", 0),
      latency_ms |-> Get(d, "latency_ms", NoneN),
      called_at |-> ensure_ts(Get(d, "timestamp_utc", NoneT), t) ]

\* (mutant) step ids numbered from the position in the list, the same at
\* every call
step_records_by_position(d, u0) ==
    LET steps == Get(d, "steps", <<>>)
    IN IF Len(steps) > 0
       THEN [i \in 1..Len(steps) |-> step_to_run_step(d, steps[i], i)]
       ELSE <<flat_to_run_step(d, 1)>>

\* the run_step records of _metadata_to_records
step_records(d, u0) ==
    LET steps == Get(d, "steps", <<>>)
    IN IF Len(steps) > 0
       THEN [i \in 1..Len(steps) |-> step_to_run_step(d, steps[i], u0 + i)]
       ELSE <<flat_to_run_step(d, u0 + 1)>>

\* (mutant) no synthesized api_call when the list is empty
call_records_no_synth(d, u0, t) ==
    LET api_calls == Get(d, "api_calls", <<>>)
    IN [i \in 1..Len(api_calls) |-> call_to_api_call(d, api_calls[i], u0 + i, t)]

\* (mutant) the loop over api_calls stopping one entry short
call_records_one_short(d, u0, t) ==
    LET api_calls == Get(d, "api_calls", <<>>)
    IN IF Len(api_calls) > 0
       THEN [i \in 1..(Len(api_calls) - 1) |->
                call_to_api_call(d, api_calls[i], u0 + i, t)]
       ELSE <<flat_to_api_call(d, u0 + 1, t)>>

\* the api_call records of _metadata_to_records
call_records(d, u0, t) ==
    LET api_calls == Get(d, "api_calls", <<>>)
    IN IF Len(api_calls) > 0
       THEN [i \in 1..Len(api_calls) |-> call_to_api_call(d, api_calls[i], u0 + i, t)]
       ELSE <<flat_to_api_call(d, u0 + 1, t)>>

\* _metadata_to_records.  u0 is the number of uuid4 values drawn before the
\* call; tS <= tC <= tA are the clock readings of the datetime.utcnow() calls
\* (agent_run started_at, agent_run completed_at, api_call called_at).
metadata_to_records(d, u0, tS, tC, tA) ==
    LET run == <<to_agent_run(d, tS, tC)>>
        st == step_records(d, u0)
    IN run \o st \o call_records(d, u0 + Len(st), tA)

(***************************************************************************)
(* Input documents of the transform.                                       *)
(***************************************************************************)
StepEntries ==
    { [step_name |-> "search_overview", status |-> "success", latency_ms |-> 10,
       error |-> None],
      [status |-> "failure", error |-> "boom"] }

CallEntries ==
    { [provider |-> "tavily", query |-> "q overview", results_returned |-> 2,
       latency_ms |-> 10, called_at |-> <<"iso", 0>>],
      [provider |-> "openai", query |-> "summarize: q"] }

\* the part of a document every document has here
BaseDoc == [query |-> "q", status |-> "success", latency_ms |-> 450,
            num_sources |-> 2]

\* f extended by key k with value v
With(f, k, v) == [x \in DOMAIN f \cup {k} |-> IF x = k THEN v ELSE f[x]]

\* f extended by k -> v for one v of S, or left without k when absent is chosen
Opt(F, k, S) == F \cup {With(f, k, v) : f \in F, v \in S}

Docs ==
    LET d0 == {BaseDoc}
        d1 == Opt(d0, "event_id", {"run1", "run2"})
        d2 == Opt(d1, "steps", SeqUpTo(StepEntries, MaxSteps))
        d3 == Opt(d2, "api_calls", SeqUpTo(CallEntries, MaxCalls))
        d4 == Opt(d3, "started_at_utc", {<<"iso", 0>>})
        d5 == Opt(d4, "completed_at_utc", {<<"iso", 0>>})
    IN Opt(d5, "timestamp_utc", {<<"dt", 0>>, <<"iso", 0>>})


(***************************************************************************)
(* firehose_client.py: FirehoseClient.send_batch.                          *)
(***************************************************************************)
Min(a, b) == IF a < b THEN a ELSE b

\* r without its field k
Without(r, k) == [x \in DOMAIN r \ {k} |-> r[x]]

\* the keys whose values are numbers, timestamps and uuid4 strings; the
\* values of the other keys are strings
NumKeys == {"latency_ms", "total_latency_ms", "total_api_calls",
            "results_returned", "num_sources"}
TsKeys == {"started_at", "completed_at", "called_at", "timestamp_utc",
           "started_at_utc", "completed_at_utc"}
IdKeys == {"step_id", "call_id"}

\* json.dumps of one value: null for None, a number, or a string; a datetime
\* object is not serializable (json.dumps raises TypeError)
json_value(k, v) ==
    CASE k \in NumKeys -> IF v = NoneN THEN <<"null">> ELSE <<"number", v>>
      [] k \in IdKeys -> <<"string", <<"uuid", v>> >>
      [] k \in TsKeys -> IF v = NoneT THEN <<"null">>
                         ELSE IF v[1] = "dt" THEN <<"TypeError">>
                         ELSE <<"string", v>>
      [] OTHER -> IF v = None THEN <<"null">> ELSE <<"string", v>>

\* json.dumps of a dict: one JSON object with one member per key
json_dumps(c) == [k \in DOMAIN c |-> json_value(k, c[k])]

\* (mutant) the record is serialized as it is, its _id included
record_to_firehose_format_raw(r) == <<json_dumps(r), "\n">>

\* _record_to_firehose_format: the JSON text of the record without its _id
\* key, followed by one newline
record_to_firehose_format(r) == <<json_dumps(Without(r, "_id")), "\n">>

\* (mutant) the slice records[i : i + batch_size + 1]
batch_off_by_one(recs, i) ==
    [k \in 1..(Min(i + BatchSize + 1, Len(recs)) - i) |-> recs[i + k]]

\* records[i : i + batch_size] (i counts from 0)
batch(recs, i) ==
    [k \in 1..(Min(i + BatchSize, Len(recs)) - i) |-> recs[i + k]]

\* the Records argument of put_record_batch for the batch starting at i
firehose_records(recs, i) ==
    LET b == batch(recs, i)
    IN [k \in 1..Len(b) |-> [Data |-> record_to_firehose_format(b[k])]]

\* the put_record_batch call of the current attempt: its outcome and the
\* value of the loop variable i at the call (its Records argument is
\* firehose_records(records, i): records does not change during the call)
LogPut(outcome) ==
    puts' = Append(puts, [outcome |-> outcome, i |-> sb_i])

\* the Records argument of a logged put_record_batch call
PutRecords(p) == firehose_records(records, p.i)

\* what the stream may accept of a batch of n records when it reports
\* FailedPutCount > 0: nothing, all but the last record, or the last record
\* alone (positions in the batch)
PartialAcceptances(n) == {{}, 1..(n - 1), {n} \ {1}}

\* the stream accepts the records at the positions acc of the current batch
Accept(acc) == accepted' = accepted \cup {sb_i + j : j \in acc}

\* the outer loop moves on to the next batch
NextBatch ==
    /\ sb_i' = sb_i + BatchSize
    /\ attempt' = 0

\* (mutant) a retry that never advances the attempt counter
retry_or_forever(onLast) ==
    /\ UNCHANGED <<sb_i, attempt, sb_pc, sb_exc>>

\* `if attempt < self.max_retries - 1: time.sleep(...)` and the loop's next
\* attempt; onLast is what the else branch does
retry_or(onLast) ==
    IF attempt < max_retries - 1
    THEN /\ attempt' = attempt + 1
         /\ UNCHANGED <<sb_i, sb_pc, sb_exc>>
    ELSE onLast

\* send_batch is entered: `if not records: return 0`, else the loops start
SB_Begin ==
    /\ sb_pc = "start"
    /\ IF Len(records) = 0
       THEN /\ sb_pc' = "done"
            /\ sb_ret' = 0
       ELSE /\ sb_pc' = "batch"
            /\ UNCHANGED sb_ret
    /\ sb_i' = 0
    /\ attempt' = 0
    /\ sent' = 0
    /\ UNCHANGED <<records, max_retries, puts, accepted, sb_exc, batch_size>>

InAttempt == sb_pc = "batch" /\ sb_i < Len(records) /\ attempt < max_retries

\* put_record_batch answers with FailedPutCount = 0
PutOk ==
    /\ InAttempt
    /\ LogPut("ok")
    /\ Accept(1..Len(batch(records, sb_i)))
    /\ sent' = sent + Len(batch(records, sb_i))
    /\ NextBatch
    /\ UNCHANGED <<records, max_retries, sb_pc, sb_ret, sb_exc, batch_size>>

\* put_record_batch answers with FailedPutCount > 0
PutPartial ==
    /\ InAttempt
    /\ LogPut("partial")
    /\ \E acc \in PartialAcceptances(Len(batch(records, sb_i))) : Accept(acc)
    /\ retry_or(NextBatch /\ UNCHANGED <<sb_pc, sb_exc>>)
    /\ UNCHANGED <<records, max_retries, sent, sb_ret, batch_size>>

\* (mutant) the last ClientError is swallowed like a partial failure
PutClientError_swallow ==
    /\ InAttempt
    /\ LogPut("client_error")
    /\ UNCHANGED accepted
    /\ retry_or(NextBatch /\ UNCHANGED <<sb_pc, sb_exc>>)
    /\ UNCHANGED <<records, max_retries, sent, sb_ret, batch_size>>

\* put_record_batch raises a ClientError that is no credentials rejection
PutClientError ==
    /\ InAttempt
    /\ LogPut("client_error")
    /\ UNCHANGED accepted
    /\ retry_or(/\ sb_pc' = "raised"
                /\ sb_exc' = "RuntimeError"
                /\ UNCHANGED <<sb_i, attempt>>)
    /\ UNCHANGED <<records, max_retries, sent, sb_ret, batch_size>>

\* (mutant) a credentials rejection handled like any other ClientError:
\* retried, and a RuntimeError on the last attempt
PutCredsError_retried ==
    /\ InAttempt
    /\ LogPut("creds_error")
    /\ UNCHANGED accepted
    /\ retry_or(/\ sb_pc' = "raised"
                /\ sb_exc' = "RuntimeError"
                /\ UNCHANGED <<sb_i, attempt>>)
    /\ UNCHANGED <<records, max_retries, sent, sb_ret, batch_size>>

\* put_record_batch raises a ClientError with code UnrecognizedClientException
\* or a security-token message
PutCredsError ==
    /\ InAttempt
    /\ LogPut("creds_error")
    /\ UNCHANGED accepted
    /\ sb_pc' = "raised"
    /\ sb_exc' = "ValueError"
    /\ UNCHANGED <<records, max_retries, sb_i, attempt, sent, sb_ret, batch_size>>

\* put_record_batch raises an exception that is no ClientError (it is not
\* caught by send_batch)
PutOtherError ==
    /\ InAttempt
    /\ LogPut("other_error")
    /\ UNCHANGED accepted
    /\ sb_pc' = "raised"
    /\ sb_exc' = "Exception"
    /\ UNCHANGED <<records, max_retries, sb_i, attempt, sent, sb_ret, batch_size>>

\* the outer loop is exhausted: `return sent`
SB_Return ==
    /\ sb_pc = "batch"
    /\ sb_i >= Len(records)
    /\ sb_pc' = "done"
    /\ sb_ret' = sent
    /\ UNCHANGED <<records, max_retries, sb_i, attempt, sent, puts, accepted,
                   sb_exc, batch_size>>

SendBatch ==
    \/ SB_Begin
    \/ PutOk
    \/ PutPartial
    \/ PutClientError
    \/ PutCredsError
    \/ PutOtherError
    \/ SB_Return

\* the relay is not in use
SendIdle ==
    /\ records = <<>>
    /\ max_retries = DefaultMaxRetries
    /\ sb_pc = "idle"
    /\ sb_i = 0
    /\ attempt = 0
    /\ sent = 0
    /\ puts = <<>>
    /\ accepted = {}
    /\ sb_ret = NoneN
    /\ sb_exc = ""
    /\ batch_size = BatchSize

(***************************************************************************)
(* toy_agent.py: CompanyResearcher.                                        *)
(***************************************************************************)
\* the latency a step measures (time.time() differences are not modelled)
Latency == 10

\* the state research() starts from
initial_state(query) ==
    [ query |-> query, company_name |-> None, industry |-> None,
      summary |-> None, sources |-> <<>>, steps |-> <<>>, api_calls |-> <<>>,
      research_complete |-> FALSE, error |-> None ]

\* the i-th result of a search, as formatted by _tavily_step
Source(step_name, i) ==
    [title |-> step_name, url |-> "http://example.com", content |-> "text",
     score |-> i]

\* the entries _tavily_step and _summarize_step append
StepResult(step_name, status, latency, error) ==
    [step_name |-> step_name, status |-> status, latency_ms |-> latency,
     error |-> error]

ApiCallResult(provider, query, n, latency, t) ==
    [provider |-> provider, query |-> query, results_returned |-> n,
     latency_ms |-> latency, called_at |-> <<"iso", t>>]

\* (mutant) _tavily_step without its try/except: a failed search records
\* nothing and the exception reaches research()'s handler
tavily_step_uncaught(st, step_name, query, n, err, t) ==
    IF err # None
    THEN [st EXCEPT !.error = err, !.research_complete = FALSE]
    ELSE [st EXCEPT
            !.steps = Append(@, StepResult(step_name, "success", Latency, None)),
            !.api_calls = Append(@, ApiCallResult("tavily", query, n, Latency, t))]

\* (mutant) _tavily_step recording its api_call only when the search
\* returned
tavily_step_call_on_success(st, step_name, query, n, err, t) ==
    LET stepped == [st EXCEPT
                      !.steps = Append(@, StepResult(step_name,
                                         IF Truthy(err) THEN "failure" ELSE "success",
                                         Latency, err))]
    IN IF Truthy(err) THEN stepped
       ELSE [stepped EXCEPT
               !.api_calls = Append(@, ApiCallResult("tavily", query, n,
                                                     Latency, t))]

\* _tavily_step: the state after the search; err is None when the search
\* returned n results, else the message of the exception it raised
tavily_step(st, step_name, query, n, err, t) ==
    LET formatted == IF err = None THEN n ELSE 0
    IN [st EXCEPT
          !.steps = Append(@, StepResult(step_name,
                                         IF Truthy(err) THEN "failure" ELSE "success",
                                         Latency, err)),
          !.api_calls = Append(@, ApiCallResult("tavily", query, formatted,
                                                Latency, t))]

\* what _tavily_step returns
formatted_sources(step_name, n, err) ==
    IF err = None THEN [i \in 1..n |-> Source(step_name, i)] ELSE <<>>

\* _summarize_step without an OpenAI client
summarize_skipped(st) ==
    [st EXCEPT !.steps = Append(@, StepResult("summarize", "skipped", 0, None)),
               !.company_name = st.query]

\* _summarize_step with an OpenAI client; err is None when the completion was
\* returned and parsed, else the message of the exception
summarize_called(st, err, t) ==
    LET parsed == [st EXCEPT !.company_name = "Company Inc",
                             !.industry = "SaaS",
                             !.summary = "a summary"]
        after == IF err = None THEN parsed ELSE [st EXCEPT !.company_name = st.query]
    IN [after EXCEPT
          !.steps = Append(@, StepResult("summarize",
                                         IF Truthy(err) THEN "failure" ELSE "success",
                                         Latency, err)),
          !.api_calls = Append(@, ApiCallResult("openai", "summarize: q",
                                                IF Truthy(err) THEN 0 ELSE 1,
                                                Latency, t))]

\* has_sources of research(): a search step succeeded
has_sources(st) ==
    \E i \in 1..Len(st.steps) :
        /\ st.steps[i].step_name \in {"search_overview", "search_competitors"}
        /\ st.steps[i].status = "success"

(***************************************************************************)
(* metadata_collector.py: MetadataCollector.                               *)
(***************************************************************************)
\* collect_metadata: the flat metadata record
collect_metadata(eid, t, query, status, latency, num_sources, error_message) ==
    [ event_id |-> eid, timestamp_utc |-> <<"iso", t>>, query |-> query,
      status |-> status, latency_ms |-> latency, num_sources |-> num_sources,
      session_id |-> "session", agent_version |-> "1.0.0",
      error_message |-> error_message ]

\* collect_from_research_state
collect_from_research_state(eid, t, query, st, start, end) ==
    LET failed == Truthy(st.error)
        flat == collect_metadata(eid, t, query,
                                 IF failed THEN "failure" ELSE "success",
                                 (end - start) * 1000, Len(st.sources),
                                 IF failed THEN st.error ELSE None)
        m1 == With(flat, "company_name", st.company_name)
        m2 == With(m1, "industry", st.industry)
        m3 == With(m2, "steps", st.steps)
        m4 == With(m3, "api_calls", st.api_calls)
        m5 == With(m4, "started_at_utc", <<"iso", start>>)
    IN With(m5, "completed_at_utc", <<"iso", end>>)

\* what a wrapped function can do: raise an exception, or return a value (a
\* string, None, a dict without sources, a ResearchState with or without
\* error, a dict whose sources are plain strings); items is the Python type
\* of the entries of v["sources"]
FuncOutcomes ==
    << [kind |-> "raise", exc |-> [class |-> "RuntimeError", msg |-> "boom"]],
      [kind |-> "return", value |-> [py |-> "str", v |-> "text"]],
      [kind |-> "return", value |-> [py |-> "NoneType", v |-> None]],
      [kind |-> "return", value |-> [py |-> "dict", v |-> [answer |-> "text"]]],
      [kind |-> "return",
       value |-> [py |-> "dict", items |-> "dict",
                  v |-> [initial_state("q") EXCEPT
                           !.sources = <<Source("search_overview", 1)>>,
                           !.research_complete = TRUE]]],
      [kind |-> "return",
       value |-> [py |-> "dict", items |-> "dict",
                  v |-> [initial_state("q") EXCEPT !.error = "unexpected error"]]],
      [kind |-> "return",
       value |-> [py |-> "dict", items |-> "str",
                  v |-> [initial_state("q") EXCEPT
                           !.sources = <<"http://example.com">>]]] >>

\* `isinstance(result, dict) and "sources" in result`
is_research_state(value) == value.py = "dict" /\ "sources" \in DOMAIN value.v

\* source.get(...) of collect_from_research_state works on every source
sources_are_dicts(value) == value.v.sources = <<>> \/ value.items = "dict"

\* the event ids generate_event_id hands out
EventIds == <<"e1", "e2", "e3", "e4", "e5">>

\* the failure entry of the wrapper's except branch
failure_entry(eid, t, query, msg) ==
    collect_metadata(eid, t, query, "failure", 0, 0, msg)

\* the wrapper of track_execution around a call whose function does out: the
\* collector's history after the call and what the wrapper does (returns a
\* value or raises an exception).  The try block covers the collection of
\* the metadata too: an exception raised there, after the function returned,
\* is handled like one of the function.
wrapper(history, out, query, t) ==
    LET eid == EventIds[Len(history) + 1]
    IN IF out.kind = "raise"
       THEN [history |-> Append(history, failure_entry(eid, t, query, out.exc.msg)),
             how |-> "raise", what |-> out.exc]
       ELSE IF is_research_state(out.value)
       THEN IF sources_are_dicts(out.value)
            THEN [history |-> Append(history,
                                 collect_from_research_state(eid, t, query,
                                                             out.value.v, t, t)),
                  how |-> "return", what |-> out.value]
            ELSE LET exc == [class |-> "AttributeError",
                             msg |-> "'str' object has no attribute 'get'"]
                 IN [history |-> Append(history,
                                        failure_entry(eid, t, query, exc.msg)),
                     how |-> "raise", what |-> exc]
       ELSE [history |-> Append(history,
                                collect_metadata(eid, t, query, "success", 0, 0, None)),
             how |-> "return", what |-> out.value]

\* no wrapped function was called
NoCall == [called |-> FALSE]

(***************************************************************************)
(* mongodb_client.py: MongoDBClient.                                       *)
(***************************************************************************)
\* save_metadata, before insert_one: an ISO string timestamp_utc becomes a
\* datetime (the caller's dict is changed in place)
timestamp_parsed(m) ==
    IF "timestamp_utc" \in DOMAIN m /\ m.timestamp_utc[1] = "iso"
    THEN [m EXCEPT !.timestamp_utc = <<"dt", @[2]>>]
    ELSE m

\* insert_one adds the generated _id to the dict it is given
inserted(m, n) == With(m, "_id", <<"oid", n>>)

\* a document as a query hands it out: _id as a string, timestamp_utc as an
\* ISO string
as_returned(d) ==
    LET d1 == [d EXCEPT !["_id"] = <<"str", @[2]>>]
    IN IF d1.timestamp_utc[1] = "dt"
       THEN [d1 EXCEPT !.timestamp_utc = <<"iso", @[2]>>]
       ELSE d1

Reverse(s) == [i \in 1..Len(s) |-> s[Len(s) + 1 - i]]

\* get_recent_metadata(limit): the newest documents first.  The collection
\* is kept here in increasing order of timestamp_utc.
get_recent_metadata(coll, limit) ==
    LET newest == Reverse(coll)
    IN [i \in 1..Min(limit, Len(coll)) |-> as_returned(newest[i])]

\* the filter {"timestamp_utc": {"$gte": start_date, "$lte": end_date}}:
\* a bound is compared with values of its own type only, so that a None
\* bound (BSON null) matches no document whose timestamp_utc is a date
matches_range(d, start_date, end_date) ==
    /\ start_date # NoneN
    /\ end_date # NoneN
    /\ d.timestamp_utc[1] = "dt"
    /\ start_date <= d.timestamp_utc[2]
    /\ d.timestamp_utc[2] <= end_date

\* get_metadata_by_date_range: find(query).sort("timestamp_utc", 1)
\* .limit(limit), each document handed out as by the other queries
get_metadata_by_date_range(coll, start_date, end_date, limit) ==
    LET hits == SelectSeq(coll, LAMBDA d : matches_range(d, start_date, end_date))
    IN [i \in 1..Min(limit, Len(hits)) |-> as_returned(hits[i])]

\* no date-range query was made
NoQuery == [called |-> FALSE, start_date |-> NoneN, end_date |-> NoneN,
            limit |-> 0, result |-> <<>>]

\* no operation of the streamer was called
NoOp == [name |-> "none", status |-> "idle", ret |-> NoneT, docs |-> NoneN,
         handed |-> 0, calls |-> 0, reported |-> NoneN, seq |-> 0]

(***************************************************************************)
(* metadata_streamer.py: MetadataStreamer.                                 *)
(***************************************************************************)
\* _prepare_record: no _id, datetimes as ISO strings
prepare_record(r) ==
    LET c == Without(r, "_id")
    IN [k \in DOMAIN c |->
          IF k \in {"started_at", "completed_at", "called_at"} /\ c[k][1] = "dt"
          THEN <<"iso", c[k][2]>> ELSE c[k]]

\* _to_firehose_records
to_firehose_records(m, u0, t) ==
    LET recs == metadata_to_records(m, u0, t, t, t)
    IN [i \in 1..Len(recs) |-> prepare_record(recs[i])]

\* [r for d in docs for r in self._to_firehose_records(d)]
RECURSIVE all_firehose_records(_, _, _)
all_firehose_records(docs, u0, t) ==
    IF docs = <<>> THEN <<>>
    ELSE LET head == to_firehose_records(docs[1], u0, t)
         IN head \o all_firehose_records(Tail(docs), u0 + Len(head) - 1, t)

(***************************************************************************)
(* scripts/run_agent.py: main and run_research.                            *)
(***************************************************************************)
\* the result dict run_research starts from (its state and metadata entries
\* are the variables state and metadata)
initial_result ==
    [ mongo_id |-> NoneT, mongo_error |-> None,
      firehose_sent |-> FALSE, firehose_error |-> None,
      backfill_sent |-> 0, backfill_error |-> None,
      snowflake_count |-> NoneN, snowflake_error |-> None ]

(***************************************************************************)
(* The constructors of the components.  Each operator gives the outcomes   *)
(* the constructor can have under a configuration e: "ok" or the exception *)
(* that leaves it.                                                         *)
(***************************************************************************)
Components ==
    {"CompanyResearcher", "MongoDBClient", "FirehoseClient",
     "MetadataStreamer", "SnowflakeClient"}

\* what the environment holds: TAVILY_API_KEY, OPENAI_API_KEY, MONGODB_URI,
\* FIREHOSE_STREAM_NAME, the AWS key pair, the Snowflake account/user/password
ConfigEnvs ==
    [tavily_key : BOOLEAN, openai : BOOLEAN, mongo_uri : BOOLEAN,
     stream_name : BOOLEAN, aws_keys : BOOLEAN, snowflake : BOOLEAN]

\* a component: how its construction ended, the clients it holds (the
\* MetadataStreamer only) and the operations attempted on it
Component(status, clients) == [status |-> status, clients |-> clients, ops |-> {}]

Unbuilt == [c \in Components |-> Component("unbuilt", {})]

\* TavilySearchTool.__init__
TavilySearchTool_init(e) == IF e.tavily_key THEN {"ok"} ELSE {"ValueError"}

\* CompanyResearcher.__init__: the search tool is built first; the OpenAI
\* client is optional
CompanyResearcher_init(e) == TavilySearchTool_init(e)

\* MongoDBClient.__init__: ValueError without a URI, ConnectionError when the
\* ping fails
MongoDBClient_init(e) ==
    IF ~e.mongo_uri THEN {"ValueError"} ELSE {"ok", "ConnectionError"}

\* FirehoseClient.__init__ and _ensure_credentials: ValueError without a
\* stream name or without the key pair; STS may still reject the keys
\* (ValueError) or fail otherwise (ClientError)
FirehoseClient_init(e) ==
    IF ~e.stream_name THEN {"ValueError"}
    ELSE IF ~e.aws_keys THEN {"ValueError"}
    ELSE {"ok", "ValueError", "ClientError"}

\* SnowflakeClient.__init__
SnowflakeClient_init(e) == IF e.snowflake THEN {"ok"} ELSE {"ValueError"}

\* MetadataStreamer.__init__ with no client given: both clients are built, a
\* ValueError of either is caught and leaves that client None
MetadataStreamer_init(e) ==
    { IF m \notin {"ok", "ValueError"} THEN Component(m, {})
      ELSE IF f \notin {"ok", "ValueError"} THEN Component(f, {})
      ELSE Component("ok", (IF m = "ok" THEN {"mongo_client"} ELSE {})
                              \cup (IF f = "ok" THEN {"firehose_client"} ELSE {})) :
        m \in MongoDBClient_init(e), f \in FirehoseClient_init(e) }

\* the outcomes of constructing component c
init_of(c, e) ==
    CASE c = "CompanyResearcher" -> {Component(o, {}) : o \in CompanyResearcher_init(e)}
      [] c = "MongoDBClient"     -> {Component(o, {}) : o \in MongoDBClient_init(e)}
      [] c = "FirehoseClient"    -> {Component(o, {}) : o \in FirehoseClient_init(e)}
      [] c = "SnowflakeClient"   -> {Component(o, {}) : o \in SnowflakeClient_init(e)}
      [] c = "MetadataStreamer"  -> MetadataStreamer_init(e)

\* the first operation of each component, and for the streamer what it
\* answers: stream_metadata returns False without a Firehose client
operation_of(c, comp) ==
    CASE c = "CompanyResearcher" -> "research"
      [] c = "MongoDBClient"     -> "save_metadata"
      [] c = "FirehoseClient"    -> "send_batch"
      [] c = "SnowflakeClient"   -> "connect"
      [] c = "MetadataStreamer"  ->
           IF "firehose_client" \in comp.clients
           THEN "stream_metadata: send_batch" ELSE "stream_metadata: False"

\* c = Class()
Construct(c) ==
    /\ pc = "construct"
    /\ components[c].status = "unbuilt"
    /\ \E comp \in init_of(c, env) :
          components' = [components EXCEPT ![c] = comp]
    /\ UNCHANGED <<pc, qry, stream_op, wire, trackVars, flags, env, state, fmt, metadata, result, store,
                   stages, raisedIn, extcalls, exit_code, start_time, shapeVars,
                   sendVars>>

\* an operation is called on a component whose constructor returned
Operate(c) ==
    /\ pc = "construct"
    /\ components[c].status = "ok"
    /\ components[c].ops = {}
    /\ components' = [components EXCEPT
                        ![c].ops = {operation_of(c, components[c])}]
    /\ UNCHANGED <<pc, qry, stream_op, wire, trackVars, flags, env, state, fmt, metadata, result, store,
                   stages, raisedIn, extcalls, exit_code, start_time, shapeVars,
                   sendVars>>

\* the pipeline is not in use
RunIdle ==
    /\ pc = "idle"
    /\ components = Unbuilt
    /\ qry = NoQuery
    /\ stream_op = NoOp
    /\ wire = {}
    /\ metadata_history = <<>>
    /\ wrapped = NoCall
    /\ flags = [stream_to_firehose |-> TRUE, backfill_firehose |-> FALSE,
                verify_snowflake |-> FALSE, backfill_limit |-> 10]
    /\ env = [tavily_key |-> TRUE, openai |-> FALSE, mongo_uri |-> FALSE]
    /\ state = initial_state("q")
    /\ fmt = <<>>
    /\ metadata = BaseDoc
    /\ result = initial_result
    /\ store = <<>>
    /\ stages = <<>>
    /\ raisedIn = {}
    /\ extcalls = <<>>
    /\ exit_code = NoneN
    /\ start_time = 0

\* a legacy flat document saved by an earlier run
OldIds == <<"old1", "old2", "old3">>
OldDoc(k) ==
    inserted(timestamp_parsed(
                 collect_metadata(OldIds[k], k, "q", "success", 450, 2, None)), k)

Stage(name, ev) == stages' = Append(stages, <<name, ev>>)
StageDone(name) == stages' = stages \o << <<name, "start">>, <<name, "end">> >>

\* an exception leaves run_research
escape(exc) ==
    /\ pc' = "escaped"
    /\ UNCHANGED exit_code

\* (mutant) the code blocks of Step 4 and Step 5 in the other order
next_pc_relay_first(stage) ==
    CASE stage = "collect" -> "relay"
      [] stage = "relay" -> "persist"
      [] stage = "persist" -> "backfill"
      [] stage = "backfill" -> "verify"
      [] stage = "verify" -> "summary"

\* where run_research goes on when a stage is over
next_pc(stage) ==
    CASE stage = "collect" -> "persist"
      [] stage = "persist" -> "relay"
      [] stage = "relay" -> "backfill"
      [] stage = "backfill" -> "verify"
      [] stage = "verify" -> "summary"

\* (mutant) an exit code that also counts a failed relay
exit_code_strict(st, res) ==
    IF ~Truthy(st.error) /\ res.firehose_error = None THEN 0 ELSE 1

\* `return 0 if not state.get("error") else 1`
exit_code_of(st, res) == IF ~Truthy(st.error) THEN 0 ELSE 1

\* Step 1: the collector and the researcher are built; without a Tavily key
\* TavilySearchTool raises ValueError, which leaves run_research
InitComponents ==
    /\ pc = "init"
    /\ IF env.tavily_key
       THEN /\ pc' = "research"
            /\ UNCHANGED exit_code
       ELSE escape("ValueError")
    /\ UNCHANGED <<auxVars, flags, env, state, fmt, metadata, result, store, stages,
                   raisedIn, extcalls, start_time, shapeVars, sendVars>>

\* Step 2: research(query) is entered
ResearchBegin ==
    /\ pc = "research"
    /\ pc' = "search_overview"
    /\ start_time' = now
    /\ state' = initial_state("q")
    /\ Stage("research", "start")
    /\ UNCHANGED <<auxVars, flags, env, fmt, metadata, result, store, raisedIn,
                   extcalls, exit_code, shapeVars, sendVars>>

\* research() returns its state to run_research
ResearchReturns ==
    /\ pc' = "collect"
    /\ now' = now + 1
    /\ Stage("research", "end")

\* the Tavily search of one step: MaxResults results, or the RuntimeError of
\* TavilySearchTool.search, whose message starts with "Tavily search failed: "
SearchStep(step_name, query, next) ==
    \E err \in {None, "Tavily search failed"} :
      LET n == IF err = None THEN MaxResults ELSE 0 IN
        /\ state' = tavily_step(state, step_name, query, n, err, now)
        /\ fmt' = fmt \o formatted_sources(step_name, n, err)
        /\ extcalls' = Append(extcalls, [step |-> step_name, err |-> err])
        \* an exception that left the step ends research() in its handler
        /\ IF state'.error = None
           THEN /\ pc' = next
                /\ UNCHANGED <<now, stages>>
           ELSE ResearchReturns
        /\ UNCHANGED <<auxVars, flags, env, metadata, result, store, raisedIn,
                       exit_code, start_time, doc, outs, uuidCtr, sendVars>>

SearchOverview ==
    /\ pc = "search_overview"
    /\ SearchStep("search_overview", "q company overview", "search_competitors")

SearchCompetitors ==
    /\ pc = "search_competitors"
    /\ SearchStep("search_competitors", "q competitors market landscape",
                  "summarize")

\* state["sources"] = overview + competitors, _summarize_step, has_sources
Summarize ==
    /\ pc = "summarize"
    /\ LET st == [state EXCEPT !.sources = fmt]
       IN IF env.openai
          THEN \E err \in {None, "OpenAI call failed"} :
                 /\ LET s2 == summarize_called(st, err, now)
                    IN state' = [s2 EXCEPT !.research_complete = has_sources(s2)]
                 /\ extcalls' = Append(extcalls, [step |-> "summarize", err |-> err])
          ELSE /\ LET s2 == summarize_skipped(st)
                  IN state' = [s2 EXCEPT !.research_complete = has_sources(s2)]
               /\ UNCHANGED extcalls
    /\ ResearchReturns
    /\ UNCHANGED <<auxVars, flags, env, fmt, metadata, result, store, raisedIn,
                   exit_code, start_time, doc, outs, uuidCtr, sendVars>>

\* an exception raised inside research() but outside the steps' own handlers
\* (the code between the second search and the end of research() that no
\* step's try block covers) is caught by research()'s `except Exception`
ResearchUnexpected ==
    /\ pc = "summarize"
    /\ state' = [state EXCEPT !.error = "unexpected error",
                              !.research_complete = FALSE]
    /\ ResearchReturns
    /\ UNCHANGED <<auxVars, flags, env, fmt, metadata, result, store, raisedIn,
                   extcalls, exit_code, start_time, doc, outs, uuidCtr, sendVars>>

\* Step 3: collect_from_research_state
Collect ==
    /\ pc = "collect"
    /\ metadata' = collect_from_research_state("new", now, "q", state,
                                               start_time, now)
    /\ StageDone("collect")
    /\ pc' = next_pc("collect")
    /\ UNCHANGED <<auxVars, flags, env, state, fmt, result, store, raisedIn, extcalls,
                   exit_code, start_time, shapeVars, sendVars>>

\* (mutant) Step 4 with only `except ValueError`: another exception leaves
\* run_research
persist_failed_narrow(exc, msg) ==
    IF exc = "ValueError"
    THEN /\ result' = [result EXCEPT !.mongo_error = msg]
         /\ raisedIn' = raisedIn \cup {"persist"}
         /\ StageDone("persist")
         /\ pc' = next_pc("persist")
         /\ UNCHANGED exit_code
    ELSE /\ escape(exc)
         /\ raisedIn' = raisedIn \cup {"persist"}
         /\ Stage("persist", "start")
         /\ UNCHANGED result

\* the handlers of Step 4: the message goes to result["mongo_error"]
persist_failed(exc, msg) ==
    /\ result' = [result EXCEPT !.mongo_error = msg]
    /\ raisedIn' = raisedIn \cup {"persist"}
    /\ StageDone("persist")
    /\ pc' = next_pc("persist")
    /\ UNCHANGED exit_code

\* Step 4: MongoDBClient(), save_metadata, close
Persist ==
    /\ pc = "persist"
    /\ \/ /\ ~env.mongo_uri
          /\ persist_failed("ValueError", "MONGODB_URI must be provided")
          /\ UNCHANGED <<metadata, store>>
       \/ /\ env.mongo_uri
          /\ persist_failed("ConnectionError", "Failed to connect to MongoDB")
          /\ UNCHANGED <<metadata, store>>
       \/ /\ env.mongo_uri
          /\ metadata' = timestamp_parsed(metadata)
          /\ persist_failed("RuntimeError", "Failed to save metadata to MongoDB")
          /\ UNCHANGED store
       \/ /\ env.mongo_uri
          /\ metadata' = inserted(timestamp_parsed(metadata), Len(store) + 1)
          /\ store' = Append(store, metadata')
          /\ result' = [result EXCEPT !.mongo_id = <<"str", Len(store) + 1>>]
          /\ StageDone("persist")
          /\ pc' = next_pc("persist")
          /\ UNCHANGED <<raisedIn, exit_code>>
    /\ UNCHANGED <<auxVars, flags, env, state, fmt, extcalls, start_time, shapeVars,
                   sendVars>>

\* send_batch is called on recs
CallSendBatch(recs) ==
    /\ records' = recs
    /\ sb_pc' = "start"
    /\ sb_ret' = NoneN
    /\ sb_exc' = ""
    /\ puts' = <<>>
    /\ accepted' = {}
    /\ uuidCtr' = uuidCtr + Cardinality({i \in 1..Len(recs) :
                                           recs[i].record_type # "agent_run"})
    /\ UNCHANGED <<max_retries, sb_i, attempt, sent, batch_size>>

\* the call of send_batch is over: its locals are gone
SendBatchLeft ==
    /\ records' = <<>>
    /\ sb_pc' = "idle"
    /\ sb_i' = 0
    /\ attempt' = 0
    /\ sent' = 0
    /\ puts' = <<>>
    /\ accepted' = {}
    /\ sb_ret' = NoneN
    /\ sb_exc' = ""
    /\ UNCHANGED <<max_retries, batch_size>>

\* the handler of Step 5: the message goes to result["firehose_error"]
relay_failed(msg) ==
    /\ result' = [result EXCEPT !.firehose_error = msg]
    /\ raisedIn' = raisedIn \cup {"relay"}
    /\ pc' = next_pc("relay")

\* Step 5: `if stream_to_firehose and metadata`, MetadataStreamer() and the
\* start of stream_metadata
RelayBegin ==
    /\ pc = "relay"
    /\ \/ /\ ~flags.stream_to_firehose
          /\ pc' = next_pc("relay")
          /\ UNCHANGED <<result, raisedIn, stages, uuidCtr, sendVars>>
       \/ \* MetadataStreamer() raises (MongoDB unreachable, STS ClientError)
          /\ flags.stream_to_firehose
          /\ relay_failed("streamer construction failed")
          /\ StageDone("relay")
          /\ UNCHANGED <<uuidCtr, sendVars>>
       \/ \* FirehoseClient() raised ValueError: stream_metadata returns False
          /\ flags.stream_to_firehose
          /\ result' = [result EXCEPT !.firehose_sent = FALSE]
          /\ pc' = next_pc("relay")
          /\ StageDone("relay")
          /\ UNCHANGED <<raisedIn, uuidCtr, sendVars>>
       \/ /\ flags.stream_to_firehose
          /\ CallSendBatch(to_firehose_records(metadata, uuidCtr, now))
          /\ pc' = "relay_send"
          /\ Stage("relay", "start")
          /\ UNCHANGED <<result, raisedIn>>
    /\ UNCHANGED <<auxVars, flags, env, state, fmt, metadata, store, extcalls,
                   exit_code, start_time, doc, outs, now>>

\* send_batch has returned or raised: the end of stream_metadata and Step 5
RelayEnd ==
    /\ pc = "relay_send"
    /\ sb_pc \in {"done", "raised"}
    /\ IF sb_pc = "done"
       THEN /\ result' = [result EXCEPT !.firehose_sent = (sb_ret = Len(records))]
            /\ pc' = next_pc("relay")
            /\ UNCHANGED raisedIn
       ELSE relay_failed(sb_exc)
    /\ SendBatchLeft
    /\ Stage("relay", "end")
    /\ UNCHANGED <<auxVars, flags, env, state, fmt, metadata, store, extcalls,
                   exit_code, start_time, shapeVars>>

\* the handler of Step 6: the message goes to result["backfill_error"]
backfill_failed(msg) ==
    /\ result' = [result EXCEPT !.backfill_error = msg]
    /\ raisedIn' = raisedIn \cup {"backfill"}
    /\ pc' = next_pc("backfill")

\* Step 6: `if backfill_firehose`, MetadataStreamer() and the start of
\* stream_recent
BackfillBegin ==
    /\ pc = "backfill"
    /\ \/ /\ ~flags.backfill_firehose
          /\ pc' = next_pc("backfill")
          /\ UNCHANGED <<result, raisedIn, stages, uuidCtr, sendVars>>
       \/ \* MetadataStreamer() raises, or get_recent_metadata raises
          /\ flags.backfill_firehose
          /\ backfill_failed("backfill failed")
          /\ StageDone("backfill")
          /\ UNCHANGED <<uuidCtr, sendVars>>
       \/ \* a client is missing, or the collection is empty: 0
          /\ flags.backfill_firehose
          /\ result' = [result EXCEPT !.backfill_sent = 0]
          /\ pc' = next_pc("backfill")
          /\ StageDone("backfill")
          /\ UNCHANGED <<raisedIn, uuidCtr, sendVars>>
       \/ /\ flags.backfill_firehose
          /\ env.mongo_uri
          /\ store # <<>>
          /\ CallSendBatch(all_firehose_records(
                 get_recent_metadata(store, flags.backfill_limit), uuidCtr, now))
          /\ pc' = "backfill_send"
          /\ Stage("backfill", "start")
          /\ UNCHANGED <<result, raisedIn>>
    /\ UNCHANGED <<auxVars, flags, env, state, fmt, metadata, store, extcalls,
                   exit_code, start_time, doc, outs, now>>

\* send_batch has returned or raised: the end of stream_recent and Step 6
BackfillEnd ==
    /\ pc = "backfill_send"
    /\ sb_pc \in {"done", "raised"}
    /\ IF sb_pc = "done"
       THEN /\ result' = [result EXCEPT !.backfill_sent = sb_ret]
            /\ pc' = next_pc("backfill")
            /\ UNCHANGED raisedIn
       ELSE backfill_failed(sb_exc)
    /\ SendBatchLeft
    /\ Stage("backfill", "end")
    /\ UNCHANGED <<auxVars, flags, env, state, fmt, metadata, store, extcalls,
                   exit_code, start_time, shapeVars>>

\* Step 7: `if verify_snowflake`, SnowflakeClient(), get_agent_runs, close;
\* then run_research returns result
Verify ==
    /\ pc = "verify"
    /\ \/ /\ ~flags.verify_snowflake
          /\ UNCHANGED <<result, raisedIn, stages>>
       \/ /\ flags.verify_snowflake
          /\ result' = [result EXCEPT !.snowflake_count = 1]
          /\ StageDone("verify")
          /\ UNCHANGED raisedIn
       \/ /\ flags.verify_snowflake
          /\ result' = [result EXCEPT !.snowflake_error = "Snowflake failed"]
          /\ raisedIn' = raisedIn \cup {"verify"}
          /\ StageDone("verify")
    /\ pc' = next_pc("verify")
    /\ UNCHANGED <<auxVars, flags, env, state, fmt, metadata, store, extcalls,
                   exit_code, start_time, shapeVars, sendVars>>

\* main after run_research returned: the summary and the exit code
MainSummary ==
    /\ pc = "summary"
    /\ exit_code' = exit_code_of(state, result)
    /\ pc' = "exit"
    /\ UNCHANGED <<auxVars, flags, env, state, fmt, metadata, result, store, stages,
                   raisedIn, extcalls, start_time, shapeVars, sendVars>>

\* (mutant) main without its try/except: the exception leaves the process
MainExcept_uncaught ==
    /\ pc = "escaped"
    /\ pc' = "crash"
    /\ UNCHANGED <<auxVars, flags, env, state, fmt, metadata, result, store, stages,
                   raisedIn, extcalls, exit_code, start_time, shapeVars, sendVars>>

\* main's `except Exception`: the error is printed and 1 is returned
MainExcept ==
    /\ pc = "escaped"
    /\ exit_code' = 1
    /\ pc' = "exit_except"
    /\ UNCHANGED <<auxVars, flags, env, state, fmt, metadata, result, store, stages,
                   raisedIn, extcalls, start_time, shapeVars, sendVars>>

(***************************************************************************)
(* The pipeline specification: one invocation of main.                     *)
(***************************************************************************)
RunInit ==
    /\ pc = "init"
    /\ components = Unbuilt
    /\ qry = NoQuery
    /\ stream_op = NoOp
    /\ wire = {}
    /\ metadata_history = <<>>
    /\ wrapped = NoCall
    /\ flags \in [stream_to_firehose : BOOLEAN, backfill_firehose : BOOLEAN,
                  verify_snowflake : BOOLEAN, backfill_limit : {1, 10}]
    /\ env \in [tavily_key : BOOLEAN, openai : BOOLEAN, mongo_uri : BOOLEAN]
    /\ state = initial_state("q")
    /\ fmt = <<>>
    /\ metadata = BaseDoc
    /\ result = initial_result
    /\ \E k \in 0..MaxStored :
          store = IF env.mongo_uri THEN [i \in 1..k |-> OldDoc(i)] ELSE <<>>
    /\ stages = <<>>
    /\ raisedIn = {}
    /\ extcalls = <<>>
    /\ exit_code = NoneN
    /\ start_time = 0
    /\ doc = BaseDoc
    /\ outs = <<>>
    /\ now = MaxStored + 1
    /\ uuidCtr = 0
    /\ SendIdle

RunNext ==
    \/ InitComponents
    \/ ResearchBegin
    \/ SearchOverview
    \/ SearchCompetitors
    \/ Summarize
    \/ ResearchUnexpected
    \/ Collect
    \/ Persist
    \/ RelayBegin
    \/ SB_Begin /\ UNCHANGED <<shapeVars, runVars>>
    \/ PutOk /\ UNCHANGED <<shapeVars, runVars>>
    \/ PutPartial /\ UNCHANGED <<shapeVars, runVars>>
    \/ PutClientError /\ UNCHANGED <<shapeVars, runVars>>
    \/ PutCredsError /\ UNCHANGED <<shapeVars, runVars>>
    \/ PutOtherError /\ UNCHANGED <<shapeVars, runVars>>
    \/ SB_Return /\ UNCHANGED <<shapeVars, runVars>>
    \/ RelayEnd
    \/ BackfillBegin
    \/ BackfillEnd
    \/ Verify
    \/ MainSummary
    \/ MainExcept

SpecRun == RunInit /\ [][RunNext]_vars

(***************************************************************************)
(* The construction specification: under any configuration, the components *)
(* are constructed in any order and used once.                             *)
(***************************************************************************)
ConstructInit ==
    /\ pc = "construct"
    /\ components = Unbuilt
    /\ qry = NoQuery
    /\ stream_op = NoOp
    /\ wire = {}
    /\ metadata_history = <<>>
    /\ wrapped = NoCall
    /\ env \in ConfigEnvs
    /\ flags = [stream_to_firehose |-> TRUE, backfill_firehose |-> FALSE,
                verify_snowflake |-> FALSE, backfill_limit |-> 10]
    /\ state = initial_state("q")
    /\ fmt = <<>>
    /\ metadata = BaseDoc
    /\ result = initial_result
    /\ store = <<>>
    /\ stages = <<>>
    /\ raisedIn = {}
    /\ extcalls = <<>>
    /\ exit_code = NoneN
    /\ start_time = 0
    /\ doc = BaseDoc
    /\ outs = <<>>
    /\ now = 0
    /\ uuidCtr = 0
    /\ SendIdle

ConstructNext ==
    \/ \E c \in Components : Construct(c)
    \/ \E c \in Components : Operate(c)

SpecConstruct == ConstructInit /\ [][ConstructNext]_vars

(***************************************************************************)
(* The query specification: date-range queries are made on a collection   *)
(* of documents saved at the times 1, 2, ...                               *)
(***************************************************************************)
QueryInit ==
    /\ pc = "query"
    /\ components = Unbuilt
    /\ qry = NoQuery
    /\ stream_op = NoOp
    /\ wire = {}
    /\ metadata_history = <<>>
    /\ wrapped = NoCall
    /\ flags = [stream_to_firehose |-> TRUE, backfill_firehose |-> FALSE,
                verify_snowflake |-> FALSE, backfill_limit |-> 10]
    /\ env = [tavily_key |-> TRUE, openai |-> FALSE, mongo_uri |-> TRUE]
    /\ state = initial_state("q")
    /\ fmt = <<>>
    /\ metadata = BaseDoc
    /\ result = initial_result
    /\ \E k \in 0..(MaxStored + 1) : store = [i \in 1..k |-> OldDoc(i)]
    /\ stages = <<>>
    /\ raisedIn = {}
    /\ extcalls = <<>>
    /\ exit_code = NoneN
    /\ start_time = 0
    /\ doc = BaseDoc
    /\ outs = <<>>
    /\ now = 0
    /\ uuidCtr = 0
    /\ SendIdle

\* mongo_client.get_metadata_by_date_range(start_date, end_date, limit); a
\* caller that has only an end date passes None as start_date
DateRangeQuery ==
    /\ pc = "query"
    /\ \E start_date \in {NoneN} \cup 0..MaxQueryTime :
       \E end_date \in 0..MaxQueryTime :
       \E limit \in 1..MaxLimit :
          qry' = [called |-> TRUE, start_date |-> start_date,
                  end_date |-> end_date, limit |-> limit,
                  result |-> get_metadata_by_date_range(store, start_date,
                                                        end_date, limit)]
    /\ UNCHANGED <<pc, components, stream_op, wire, trackVars, flags, env, state, fmt, metadata, result,
                   store, stages, raisedIn, extcalls, exit_code, start_time,
                   shapeVars, sendVars>>

QueryNext == DateRangeQuery

SpecQuery == QueryInit /\ [][QueryNext]_vars

(***************************************************************************)
(* The streamer specification: a MetadataStreamer built from the           *)
(* environment is used for up to MaxOps operations (stream_metadata,       *)
(* stream_recent, stream_since) on a collection of stored documents.       *)
(***************************************************************************)
StreamerClients == components["MetadataStreamer"].clients

\* (mutant) True whenever send_batch returned, whatever it counted
stream_metadata_result_any(sent_count, n) == sent_count >= 0

\* `return sent == len(records)`
stream_metadata_result(sent_count, n) == sent_count = n

\* (mutant) the guard of stream_recent / stream_since testing the MongoDB
\* client only
clients_missing_mongo_only(clients) == "mongo_client" \notin clients

\* `if not self.mongo_client or not self.firehose_client`
clients_missing(clients) ==
    "mongo_client" \notin clients \/ "firehose_client" \notin clients

\* the operation returns ret without calling send_batch; ndocs is the number
\* of documents the store returned (NoneN when it was not asked)
OpReturns(name, ret, ndocs) ==
    /\ stream_op' = [name |-> name, status |-> "returned", ret |-> ret,
                     docs |-> ndocs, handed |-> 0, calls |-> 0,
                     reported |-> NoneN, seq |-> stream_op.seq + 1]
    /\ UNCHANGED <<uuidCtr, sendVars>>

\* the operation calls send_batch on recs
OpSends(name, recs, ndocs) ==
    /\ stream_op' = [name |-> name, status |-> "running", ret |-> NoneT,
                     docs |-> ndocs, handed |-> Len(recs), calls |-> 0,
                     reported |-> NoneN, seq |-> stream_op.seq + 1]
    /\ CallSendBatch(recs)

OpEnabled ==
    /\ pc = "stream"
    /\ stream_op.status # "running"
    /\ stream_op.seq < MaxOps

OpFrame ==
    UNCHANGED <<pc, components, qry, wire, trackVars, flags, env, state, fmt, metadata,
                result, store, stages, raisedIn, extcalls, exit_code,
                start_time, doc, outs, now>>

\* stream_metadata(metadata)
StreamMetadata ==
    /\ OpEnabled
    /\ IF "firehose_client" \notin StreamerClients
       THEN OpReturns("stream_metadata", <<"bool", FALSE>>, NoneN)
       ELSE OpSends("stream_metadata",
                    to_firehose_records(metadata, uuidCtr, now), NoneN)
    /\ OpFrame

\* stream_recent(limit) and stream_since(since) after the documents were
\* asked for: `if not docs: return 0`, else send_batch on their records
StreamDocs(name, docs) ==
    IF Len(docs) = 0
    THEN OpReturns(name, <<"int", 0>>, 0)
    ELSE OpSends(name, all_firehose_records(docs, uuidCtr, now), Len(docs))

\* stream_recent(limit)
StreamRecent ==
    /\ OpEnabled
    /\ \E limit \in 1..MaxLimit :
         IF clients_missing(StreamerClients)
         THEN OpReturns("stream_recent", <<"int", 0>>, NoneN)
         ELSE StreamDocs("stream_recent", get_recent_metadata(store, limit))
    /\ OpFrame

\* stream_since(since): end = datetime.utcnow(), up to 1000 documents
StreamSince ==
    /\ OpEnabled
    /\ \E since \in 0..MaxQueryTime :
         IF clients_missing(StreamerClients)
         THEN OpReturns("stream_since", <<"int", 0>>, NoneN)
         ELSE StreamDocs("stream_since",
                         get_metadata_by_date_range(store, since, now, 1000))
    /\ OpFrame

\* send_batch has returned or raised: the operation returns what it makes
\* of the count, or the exception leaves it
StreamOpEnd ==
    /\ pc = "stream"
    /\ stream_op.status = "running"
    /\ sb_pc \in {"done", "raised"}
    /\ stream_op' =
         [stream_op EXCEPT
            !.status = IF sb_pc = "done" THEN "returned" ELSE "raised",
            !.ret = IF sb_pc = "raised" THEN NoneT
                    ELSE IF stream_op.name = "stream_metadata"
                    THEN <<"bool", stream_metadata_result(sb_ret, Len(records))>>
                    ELSE <<"int", sb_ret>>,
            !.calls = Len(puts),
            !.reported = sb_ret]
    /\ wire' = wire \cup {<<records[j].record_type, records[j].run_id>> :
                             j \in accepted}
    /\ SendBatchLeft
    /\ UNCHANGED <<pc, components, qry, trackVars, flags, env, state, fmt,
                   metadata, result, store, stages, raisedIn, extcalls,
                   exit_code, start_time, shapeVars>>

\* the environments of a streamer: the store and the stream configured or not
StreamEnvs ==
    {e \in ConfigEnvs : e.tavily_key /\ ~e.openai /\ e.aws_keys /\ ~e.snowflake}

StreamInit ==
    /\ pc = "stream"
    /\ env \in StreamEnvs
    /\ \E comp \in MetadataStreamer_init(env) :
          /\ comp.status = "ok"
          /\ components = [Unbuilt EXCEPT !["MetadataStreamer"] = comp]
    /\ qry = NoQuery
    /\ stream_op = NoOp
    /\ wire = {}
    /\ metadata_history = <<>>
    /\ wrapped = NoCall
    /\ flags = [stream_to_firehose |-> TRUE, backfill_firehose |-> FALSE,
                verify_snowflake |-> FALSE, backfill_limit |-> 10]
    /\ state = initial_state("q")
    /\ fmt = <<>>
    /\ metadata = collect_metadata("run1", MaxQueryTime, "q", "success", 450, 2, None)
    /\ result = initial_result
    /\ \E k \in 0..(MaxStored + 1) : store = [i \in 1..k |-> OldDoc(i)]
    /\ stages = <<>>
    /\ raisedIn = {}
    /\ extcalls = <<>>
    /\ exit_code = NoneN
    /\ start_time = 0
    /\ doc = BaseDoc
    /\ outs = <<>>
    /\ now = MaxQueryTime
    /\ uuidCtr = 0
    /\ SendIdle

StreamNext ==
    \/ StreamMetadata
    \/ StreamRecent
    \/ StreamSince
    \/ SB_Begin /\ UNCHANGED <<shapeVars, runVars>>
    \/ PutOk /\ UNCHANGED <<shapeVars, runVars>>
    \/ PutPartial /\ UNCHANGED <<shapeVars, runVars>>
    \/ PutClientError /\ UNCHANGED <<shapeVars, runVars>>
    \/ PutCredsError /\ UNCHANGED <<shapeVars, runVars>>
    \/ PutOtherError /\ UNCHANGED <<shapeVars, runVars>>
    \/ SB_Return /\ UNCHANGED <<shapeVars, runVars>>
    \/ StreamOpEnd

SpecStream == StreamInit /\ [][StreamNext]_vars

(***************************************************************************)
(* The tracking specification: a function wrapped by track_execution is    *)
(* called up to MaxTracked times with one collector.                       *)
(***************************************************************************)
TrackInit ==
    /\ pc = "track"
    /\ components = Unbuilt
    /\ qry = NoQuery
    /\ stream_op = NoOp
    /\ wire = {}
    /\ metadata_history = <<>>
    /\ wrapped = NoCall
    /\ flags = [stream_to_firehose |-> TRUE, backfill_firehose |-> FALSE,
                verify_snowflake |-> FALSE, backfill_limit |-> 10]
    /\ env = [tavily_key |-> TRUE, openai |-> FALSE, mongo_uri |-> FALSE]
    /\ state = initial_state("q")
    /\ fmt = <<>>
    /\ metadata = BaseDoc
    /\ result = initial_result
    /\ store = <<>>
    /\ stages = <<>>
    /\ raisedIn = {}
    /\ extcalls = <<>>
    /\ exit_code = NoneN
    /\ start_time = 0
    /\ doc = BaseDoc
    /\ outs = <<>>
    /\ now = 0
    /\ uuidCtr = 0
    /\ SendIdle

\* wrapper(*args, **kwargs): the function is called and does out
TrackedCall ==
    /\ pc = "track"
    /\ Len(metadata_history) < MaxTracked
    /\ \E o \in 1..Len(FuncOutcomes) :
         LET out == FuncOutcomes[o]
             w == wrapper(metadata_history, out, "q", now)
         IN /\ metadata_history' = w.history
            /\ wrapped' = [called |-> TRUE, func |-> out,
                           before |-> Len(metadata_history),
                           how |-> w.how, what |-> w.what]
    /\ UNCHANGED <<pc, components, qry, stream_op, wire, flags, env, state, fmt,
                   metadata, result, store, stages, raisedIn, extcalls,
                   exit_code, start_time, shapeVars, sendVars>>

TrackNext == TrackedCall

SpecTrack == TrackInit /\ [][TrackNext]_vars

(***************************************************************************)
(* The shaping specification: a document is drawn and the transform is     *)
(* called on it repeatedly.                                                *)
(***************************************************************************)
ShapeInit ==
    /\ doc \in Docs
    /\ outs = <<>>
    /\ now = 0
    /\ uuidCtr = 0
    /\ SendIdle
    /\ RunIdle

\* (mutant) a transform that converts the document's datetime to an ISO
\* string in the document itself, as save_metadata does the other way round
Transform_in_place ==
    /\ Len(outs) < MaxTransforms
    /\ \E tS \in now..MaxClock : \E tC \in tS..MaxClock : \E tA \in tC..MaxClock :
         LET recs == metadata_to_records(doc, uuidCtr, tS, tC, tA)
         IN /\ outs' = Append(outs, recs)
            /\ uuidCtr' = uuidCtr + Len(recs) - 1
            /\ now' = tA
    /\ doc' = IF "timestamp_utc" \in DOMAIN doc
              THEN [doc EXCEPT !.timestamp_utc = ensure_ts(@, now)]
              ELSE doc
    /\ UNCHANGED <<sendVars, runVars>>

\* one call of _metadata_to_records(doc)
Transform ==
    /\ Len(outs) < MaxTransforms
    /\ \E tS \in now..MaxClock : \E tC \in tS..MaxClock : \E tA \in tC..MaxClock :
         LET recs == metadata_to_records(doc, uuidCtr, tS, tC, tA)
         IN /\ outs' = Append(outs, recs)
            /\ uuidCtr' = uuidCtr + Len(recs) - 1
            /\ now' = tA
    /\ UNCHANGED <<doc, sendVars, runVars>>

ShapeNext == Transform

SpecShape == ShapeInit /\ [][ShapeNext]_vars

(***************************************************************************)
(* The shaping specification on sparse documents: any of the document's    *)
(* keys may be missing, and so may the keys of its step and call entries.  *)
(***************************************************************************)
\* a dict without keys
EmptyDict == [k \in {} |-> None]

\* f restricted to the keys in K
Restrict(f, K) == [k \in DOMAIN f \cap K |-> f[k]]

FullDoc == [event_id |-> "run1", query |-> "q", status |-> "failure",
            latency_ms |-> 450, num_sources |-> 2, error_message |-> "boom",
            timestamp_utc |-> <<"iso", 0>>]

SparseStepEntries ==
    { EmptyDict,
      [step_name |-> "summarize", status |-> "skipped", latency_ms |-> 0,
       error |-> None] }

SparseCallEntries ==
    { EmptyDict,
      [provider |-> "tavily", query |-> "q overview", results_returned |-> 1,
       latency_ms |-> 10, called_at |-> <<"iso", 0>>] }

SparseDocs ==
    LET d0 == {Restrict(FullDoc, K) : K \in SUBSET DOMAIN FullDoc}
        d1 == Opt(d0, "steps", SeqUpTo(SparseStepEntries, MaxSparse))
    IN Opt(d1, "api_calls", SeqUpTo(SparseCallEntries, MaxSparse + 1))

SparseInit ==
    /\ doc \in SparseDocs
    /\ outs = <<>>
    /\ now = 0
    /\ uuidCtr = 0
    /\ SendIdle
    /\ RunIdle

SpecShapeSparse == SparseInit /\ [][ShapeNext]_vars

(***************************************************************************)
(* The relay specification: send_batch is called on a list of n records    *)
(* by a client with a given max_retries.                                   *)
(***************************************************************************)
\* n distinct shaped records
RecordPool(n) ==
    [k \in 1..n |-> call_to_api_call(With(BaseDoc, "event_id", "run1"),
                                     [query |-> "q overview"], k, 0)]

\* the list lengths tried: those at and next to a multiple of the batch size,
\* and the multiples plus 5 (30 records: a batch of 25 and one of 5)
RecordCounts == {n \in 0..MaxRecords : n % BatchSize \in {0, 1, 5, BatchSize - 1}}

\* n stored documents as a query hands them out (with their _id), given to
\* send_batch as they are
RawPool(n) == [k \in 1..n |-> as_returned(OldDoc(k))]

SendInit ==
    /\ doc = BaseDoc
    /\ outs = <<>>
    /\ now = 0
    /\ uuidCtr = 0
    /\ records \in {RecordPool(n) : n \in RecordCounts}
                   \cup {RawPool(n) : n \in 1..MaxRaw}
    /\ max_retries \in 1..MaxRetries
    /\ sb_pc = "start"
    /\ sb_i = 0
    /\ attempt = 0
    /\ sent = 0
    /\ puts = <<>>
    /\ accepted = {}
    /\ sb_ret = NoneN
    /\ sb_exc = ""
    /\ batch_size \in {BatchSize, 100}
    /\ RunIdle

SendNext ==
    \/ SB_Begin /\ UNCHANGED <<shapeVars, runVars>>
    \/ PutOk /\ UNCHANGED <<shapeVars, runVars>>
    \/ PutPartial /\ UNCHANGED <<shapeVars, runVars>>
    \/ PutClientError /\ UNCHANGED <<shapeVars, runVars>>
    \/ PutCredsError /\ UNCHANGED <<shapeVars, runVars>>
    \/ PutOtherError /\ UNCHANGED <<shapeVars, runVars>>
    \/ SB_Return /\ UNCHANGED <<shapeVars, runVars>>

SpecSend == SendInit /\ [][SendNext]_vars

\* the scheduling of a sequential program: a step that can be taken is taken
SpecSendFair == SpecSend /\ WF_vars(SendNext)

(***************************************************************************)
(* Claims about the shaping transform (checked under SpecShape).           *)
(***************************************************************************)
NSteps(d) == Len(Get(d, "steps", <<>>))
NCalls(d) == Len(Get(d, "api_calls", <<>>))
Max1(n) == IF n > 1 THEN n ELSE 1

\* C1: for a document with S >= 1 steps and C >= 1 api_calls every output of
\* the transform has exactly 1 + S + C records: the agent_run record first,
\* then one run_step per step in list order, then one api_call per call in
\* list order; every run_step and api_call carries the run_id of the
\* agent_run record, which is the document's event_id.
C1_FanOutEnriched ==
    (NSteps(doc) >= 1 /\ NCalls(doc) >= 1) =>
        \A k \in 1..Len(outs) :
            LET o == outs[k]
                S == NSteps(doc)
                C == NCalls(doc)
            IN /\ Len(o) = 1 + S + C
               /\ o[1].record_type = "agent_run"
               /\ o[1].run_id = Get(doc, "event_id", None)
               /\ \A i \in 1..S :
                    /\ o[1 + i].record_type = "run_step"
                    /\ o[1 + i].step_name = Get(doc.steps[i], "step_name", "research")
                    /\ o[1 + i].error_message = Get(doc.steps[i], "error", None)
                    /\ o[1 + i].run_id = o[1].run_id
               /\ \A j \in 1..C :
                    /\ o[1 + S + j].record_type = "api_call"
                    /\ o[1 + S + j].query_used = Get(doc.api_calls[j], "query", doc.query)
                    /\ o[1 + S + j].run_id = o[1].run_id

C1_Witness ==
    /\ Len(outs) >= 1
    /\ NSteps(doc) = 2 /\ NCalls(doc) = 2
    /\ "event_id" \in DOMAIN doc
    /\ doc.steps[1] # doc.steps[2]
    /\ doc.api_calls[1] # doc.api_calls[2]

\* the records of output o whose record_type is ty
OfType(o, ty) == {i \in 1..Len(o) : o[i].record_type = ty}

\* C2: every output of the transform has exactly 1 + max(S,1) + max(C,1)
\* records: 1 agent_run, max(S,1) run_step and max(C,1) api_call records, the
\* two lists being handled independently; with both lists absent or empty
\* these are exactly 3 records (agent_run, synthesized run_step, synthesized
\* api_call, in that order).
C2_FanOutTotal ==
    \A k \in 1..Len(outs) :
        LET o == outs[k]
            S == NSteps(doc)
            C == NCalls(doc)
        IN /\ Len(o) = 1 + Max1(S) + Max1(C)
           /\ OfType(o, "agent_run") = {1}
           /\ OfType(o, "run_step") = 2..(1 + Max1(S))
           /\ OfType(o, "api_call") = (2 + Max1(S))..Len(o)
           /\ (S = 0 /\ C = 0) =>
                /\ Len(o) = 3
                /\ o[2].step_name = "research"
                /\ o[3].query_used = Get(doc, "query", None)

C2_Witness ==
    /\ Len(outs) >= 1
    /\ "steps" \notin DOMAIN doc
    /\ "api_calls" \in DOMAIN doc /\ doc.api_calls = <<>>

\* the field of a record that holds its freshly generated identifier
IdField(r) == IF r.record_type = "run_step" THEN "step_id" ELSE "call_id"

\* C10 as stated: two calls of the transform on the same document give two
\* agent_run records equal in every field, and the other records differ at
\* most in step_id / call_id.
C10_Original ==
    Len(outs) >= 2 =>
        /\ outs[1][1] = outs[2][1]
        /\ Len(outs[1]) = Len(outs[2])
        /\ \A i \in 2..Len(outs[1]) :
              Without(outs[1][i], IdField(outs[1][i]))
                = Without(outs[2][i], IdField(outs[2][i]))

\* the document carries a timestamp for started_at / completed_at / called_at
HasStarted(d) ==
    TruthyT(OrT(Get(d, "started_at_utc", NoneT), Get(d, "timestamp_utc", NoneT)))
HasCompleted(d) ==
    TruthyT(OrT(Get(d, "completed_at_utc", NoneT), Get(d, "timestamp_utc", NoneT)))
HasCalled(d, j) ==
    \/ TruthyT(Get(d, "timestamp_utc", NoneT))
    \/ /\ NCalls(d) > 0
       /\ TruthyT(Get(d.api_calls[j], "called_at", NoneT))

\* C10 (amended): two calls of the transform on the same document give two
\* agent_run records equal in every field other than started_at and
\* completed_at, and equal in those too when the document carries a
\* timestamp for them; the other records differ only in step_id / call_id
\* (which do differ) and in the called_at of an api_call for which neither
\* the call entry nor the document carries a timestamp.
C10_ShapingIdempotent ==
    Len(outs) >= 2 =>
        LET a == outs[1]
            b == outs[2]
        IN /\ Len(a) = Len(b)
           /\ Without(Without(a[1], "started_at"), "completed_at")
                = Without(Without(b[1], "started_at"), "completed_at")
           /\ HasStarted(doc) => a[1].started_at = b[1].started_at
           /\ HasCompleted(doc) => a[1].completed_at = b[1].completed_at
           /\ \A i \in 2..Len(a) :
                /\ a[i].record_type = b[i].record_type
                /\ a[i][IdField(a[i])] # b[i][IdField(b[i])]
                /\ Without(Without(a[i], IdField(a[i])), "called_at")
                     = Without(Without(b[i], IdField(b[i])), "called_at")
                /\ (a[i].record_type = "api_call"
                      /\ HasCalled(doc, i - 1 - Max1(NSteps(doc))))
                     => a[i].called_at = b[i].called_at

\* two transform calls at different times on a document with timestamps
C10_Witness ==
    /\ Len(outs) = 2
    /\ HasStarted(doc) /\ HasCompleted(doc)
    /\ NSteps(doc) >= 1 /\ NCalls(doc) >= 1
    /\ now > 0
    /\ outs[1][1] = outs[2][1]

(***************************************************************************)
(* Claims about send_batch (checked under SpecSend / SpecSendFair).        *)
(***************************************************************************)
CeilDiv(n, d) == (n + d - 1) \div d

AllPutsOk == \A k \in 1..Len(puts) : puts[k].outcome = "ok"

\* C3: when every put_record_batch call succeeds, send_batch on n records
\* has made, when it returns, exactly ceil(n/25) calls of at most 25 records
\* each, which together carry every input record exactly once, in input
\* order, and it returns n (30 records: calls of 25 and 5; no record: no call
\* and 0), whatever the batch_size of the MetadataStreamer.
C3_BatchesOf25 ==
    (sb_pc = "done" /\ AllPutsOk) =>
        LET n == Len(records)
        IN /\ Len(puts) = CeilDiv(n, 25)
           /\ \A k \in 1..Len(puts) : Len(PutRecords(puts[k])) \in 1..25
           /\ \A k \in 1..n :
                /\ ((k - 1) \div 25) + 1 <= Len(puts)
                /\ ((k - 1) % 25) + 1 <= Len(PutRecords(puts[((k - 1) \div 25) + 1]))
                /\ PutRecords(puts[((k - 1) \div 25) + 1])[((k - 1) % 25) + 1].Data
                     = record_to_firehose_format(records[k])
           /\ \A k \in 1..Len(puts) :
                Len(PutRecords(puts[k])) = IF k < Len(puts) THEN 25 ELSE n - 25 * (k - 1)
           /\ sb_ret = n
           /\ n = 30 => /\ Len(puts) = 2
                        /\ Len(PutRecords(puts[1])) = 25
                        /\ Len(PutRecords(puts[2])) = 5
           /\ n = 0 => Len(puts) = 0 /\ sb_ret = 0

\* 30 records sent in two successful calls by a streamer whose batch_size
\* is not 25
C3_Witness ==
    /\ sb_pc = "done"
    /\ AllPutsOk
    /\ Len(records) = 30
    /\ Len(puts) = 2
    /\ batch_size = 100

\* the index (0, 1, ...) of the batch that put k carried
BatchOf(k) == puts[k].i \div 25

\* the put_record_batch calls made for batch b
PutsOfBatch(b) == {k \in 1..Len(puts) : BatchOf(k) = b}

SB_Ended == sb_pc \in {"done", "raised"}

\* C4: send_batch makes at most max_retries put_record_batch calls for each
\* batch, so at most ceil(n/25) * max_retries calls in all, whatever the
\* stream answers, and it always ends (it returns or raises).
C4_BoundedRetries ==
    /\ [](/\ \A b \in 0..CeilDiv(Len(records), 25) :
               Cardinality(PutsOfBatch(b)) <= max_retries
          /\ Len(puts) <= CeilDiv(Len(records), 25) * max_retries)
    /\ <>SB_Ended

\* every batch of three used all its attempts
C4_Witness ==
    /\ sb_pc = "done"
    /\ max_retries = 3
    /\ Len(records) = 51
    /\ Len(puts) = 9

\* put k was the last permitted attempt for its batch
LastAttempt(k) == Cardinality({j \in PutsOfBatch(BatchOf(k)) : j <= k}) = max_retries

\* the records counted by the successful puts
SentByPuts(k) ==
    25 * Cardinality({j \in 1..k : puts[j].outcome = "ok"
                                    /\ Len(PutRecords(puts[j])) = 25})
    + Cardinality({j \in 1..k : puts[j].outcome = "ok"
                                  /\ Len(PutRecords(puts[j])) < 25})
      * (Len(records) % 25)

Attempted(name) == \E i \in 1..Len(stages) : stages[i] = <<name, "start">>
Finished(name) == \E i \in 1..Len(stages) : stages[i] = <<name, "end">>

\* run_research has returned its result to main
RunReturned == pc \in {"summary", "exit"}

\* an exception has left run_research
RunEscaped == pc \in {"escaped", "exit_except", "crash"}

\* C6: once the metadata is collected no exception leaves run_research, and
\* when it returns every stage that was asked for has been attempted
\* whatever failed before it (the relay after a persistence failure, the
\* backfill and the verification after a relay failure), and a stage raised
\* exactly when its own error field of the result is set.
C6_StagesIndependent ==
    /\ Attempted("collect") => ~RunEscaped
    /\ RunReturned =>
         /\ Attempted("persist")
         /\ flags.stream_to_firehose => Attempted("relay")
         /\ flags.backfill_firehose => Attempted("backfill")
         /\ flags.verify_snowflake => Attempted("verify")
    /\ ("persist" \in raisedIn) <=> (result.mongo_error # None)
    /\ ("relay" \in raisedIn) <=> (result.firehose_error # None)
    /\ ("backfill" \in raisedIn) <=> (result.backfill_error # None)
    /\ ("verify" \in raisedIn) <=> (result.snowflake_error # None)

\* every stage after the collection raised, and run_research returned
C6_Witness ==
    /\ RunReturned
    /\ raisedIn = {"persist", "relay", "backfill", "verify"}
    /\ Len(stages) = 12

\* C7: main returns 0 exactly when run_research returned a state without
\* error (the research succeeded), and 1 when the state carries an error or
\* an exception left run_research; the exception never leaves main; what
\* happened to persistence, relay, backfill and verification does not count.
C7_ExitCode ==
    /\ pc # "crash"
    /\ pc \in {"exit", "exit_except"} =>
         /\ exit_code \in {0, 1}
         /\ exit_code = 0 <=> (pc = "exit" /\ state.error = None)
         /\ exit_code = 1 <=> (pc = "exit_except" \/ state.error # None)
    /\ pc \notin {"exit", "exit_except"} => exit_code = NoneN

\* exit code 0 although persistence, relay, backfill and verification failed
C7_Witness ==
    /\ pc = "exit"
    /\ exit_code = 0
    /\ raisedIn = {"persist", "relay", "backfill", "verify"}

\* exit code 1 after an exception left run_research
C7_WitnessEscaped ==
    /\ pc = "exit_except"
    /\ exit_code = 1

\* the steps of the state named name
StepsNamed(name) == {i \in 1..Len(state.steps) : state.steps[i].step_name = name}

\* C8: research() never raises: whatever external calls fail, it returns a
\* state; every external call made has its step entry, with status failure
\* and the exception's message as error when the call failed and status
\* success and no error when it did not; a failure outside the steps is in
\* the state's error field, with research_complete false.
C8_ResearchNeverRaises ==
    /\ Attempted("research") => ~RunEscaped
    /\ \A k \in 1..Len(extcalls) :
         LET c == extcalls[k]
         IN /\ Cardinality(StepsNamed(c.step)) = 1
            /\ \A i \in StepsNamed(c.step) :
                 IF c.err # None
                 THEN state.steps[i].status = "failure" /\ state.steps[i].error = c.err
                 ELSE state.steps[i].status = "success" /\ state.steps[i].error = None
    /\ state.error # None => ~state.research_complete
    /\ Finished("research") =>
         (state.error = None => Len(state.steps) = 3)

\* both searches and the summarization failed, and research() returned
C8_Witness ==
    /\ Finished("research")
    /\ Len(extcalls) = 3
    /\ \A k \in 1..3 : extcalls[k].err # None
    /\ state.error = None

StageOrder == <<"research", "collect", "persist", "relay", "backfill", "verify">>
Rank(name) == CHOOSE r \in 1..Len(StageOrder) : StageOrder[r] = name

\* C9: the stages of an invocation run one after the other in the order
\* research, collect, persist, relay, backfill, verify: a stage starts only
\* when every stage started before it has ended, no stage starts after a
\* later one, no stage runs twice, and a stage that has started was preceded
\* by research, collect and persist.
C9_StagesInSequence ==
    /\ \A i \in 1..Len(stages) :
         /\ stages[i][2] = (IF i % 2 = 1 THEN "start" ELSE "end")
         /\ i % 2 = 0 => stages[i][1] = stages[i - 1][1]
    /\ \A i, j \in 1..Len(stages) :
         (i < j /\ stages[i][2] = "start" /\ stages[j][2] = "start")
            => Rank(stages[i][1]) < Rank(stages[j][1])
    /\ \A i \in 1..Len(stages) :
         stages[i][2] = "start" =>
            \A r \in 1..3 : r < Rank(stages[i][1]) => Finished(StageOrder[r])

\* all six stages have run
C9_Witness ==
    /\ RunReturned
    /\ Len(stages) = 12
(***************************************************************************)
(* Claims about the identifiers of the shaped records (SpecShape).         *)
(***************************************************************************)
\* the positions <<k, i>> of the records of type ty among all the outputs
PositionsOf(ty) ==
    {p \in (1..Len(outs)) \X (1..(1 + MaxSteps + MaxCalls + 2)) :
        /\ p[2] <= Len(outs[p[1]])
        /\ outs[p[1]][p[2]].record_type = ty}

\* C11: over all the transform calls made so far, repeated calls on the same
\* document included, no two run_step records have the same step_id and no
\* two api_call records have the same call_id.
C11_FreshIds ==
    /\ \A p, q \in PositionsOf("run_step") :
          p # q => outs[p[1]][p[2]].step_id # outs[q[1]][q[2]].step_id
    /\ \A p, q \in PositionsOf("api_call") :
          p # q => outs[p[1]][p[2]].call_id # outs[q[1]][q[2]].call_id

\* the same document with two steps and two calls was transformed twice
C11_Witness ==
    /\ Len(outs) = 2
    /\ NSteps(doc) = 2
    /\ NCalls(doc) = 2
(***************************************************************************)
(* Claims about the payloads of the relay (SpecSend).                      *)
(***************************************************************************)
\* json.loads of one JSON value of the member k
py_value(k, j) ==
    CASE j = <<"null">> -> (IF k \in NumKeys THEN NoneN
                           ELSE IF k \in TsKeys THEN NoneT ELSE None)
      [] j[1] = "number" -> j[2]
      [] j[1] = "string" -> (IF k \in IdKeys THEN j[2][2] ELSE j[2])

\* json.loads of a JSON object
json_loads(text) == [k \in DOMAIN text |-> py_value(k, text[k])]

\* C12: every payload handed to put_record_batch (here: by the latest call,
\* in every state) is one JSON object followed by one newline and nothing
\* else, the object has no _id member, and parsing it gives back the keys and
\* values of the record it was built from, its _id left out.
C12_PayloadRoundTrip ==
    puts # <<>> =>
        LET p == puts[Len(puts)]
            handed == PutRecords(p)
        IN \A j \in 1..Len(handed) :
              LET payload == handed[j].Data
                  r == records[p.i + j]
              IN /\ Len(payload) = 2
                 /\ payload[2] = "\n"
                 /\ "_id" \notin DOMAIN payload[1]
                 /\ json_loads(payload[1]) = Without(r, "_id")

\* a record that carries an _id was handed to put_record_batch
C12_Witness ==
    \E k \in 1..Len(puts) :
        /\ "_id" \in DOMAIN records[puts[k].i + 1]
        /\ Len(records) = 2
(***************************************************************************)
(* Claims about the values of the shaped records (SpecShapeSparse).        *)
(***************************************************************************)
\* C13: the agent_run record of every output has total_api_calls equal to
\* the length of the document's api_calls list when that list is not empty,
\* and otherwise to the document's num_sources, 0 when the document has no
\* num_sources; its error_message is null when the document has no
\* error_message.
C13_TotalApiCalls ==
    \A k \in 1..Len(outs) :
        LET run == outs[k][1]
        IN /\ run.record_type = "agent_run"
           /\ NCalls(doc) > 0 => run.total_api_calls = NCalls(doc)
           /\ (NCalls(doc) = 0 /\ "num_sources" \in DOMAIN doc)
                 => run.total_api_calls = doc.num_sources
           /\ (NCalls(doc) = 0 /\ "num_sources" \notin DOMAIN doc)
                 => run.total_api_calls = 0
           /\ "error_message" \notin DOMAIN doc => run.error_message = None

\* a legacy document (no api_calls list) with num_sources and without
\* error_message was transformed
C13_Witness ==
    /\ Len(outs) > 0
    /\ "api_calls" \notin DOMAIN doc
    /\ "num_sources" \in DOMAIN doc
    /\ "error_message" \notin DOMAIN doc
\* the records of type ty of an output, in order
RecordsOfType(o, ty) == SelectSeq(o, LAMBDA r : r.record_type = ty)

\* C14: when the document's steps list is absent or empty, the output has one
\* run_step record, named "research", with the document's status and
\* latency_ms; when its api_calls list is absent or empty, the output has one
\* api_call record with the document's query as query_used, its num_sources
\* as results_returned and its latency_ms.  (A value the document does not
\* have is null, and 0 for num_sources.)
C14_SynthesizedRecords ==
    \A k \in 1..Len(outs) :
        LET st == RecordsOfType(outs[k], "run_step")
            ca == RecordsOfType(outs[k], "api_call")
        IN /\ NSteps(doc) = 0 =>
                /\ Len(st) = 1
                /\ st[1].step_name = "research"
                /\ st[1].status = Get(doc, "status", None)
                /\ st[1].latency_ms = Get(doc, "latency_ms", NoneN)
           /\ NCalls(doc) = 0 =>
                /\ Len(ca) = 1
                /\ ca[1].query_used = Get(doc, "query", None)
                /\ ca[1].results_returned = Get(doc, "num_sources", 0)
                /\ ca[1].latency_ms = Get(doc, "latency_ms", NoneN)

\* a document with status, latency_ms, query and num_sources and with an
\* empty steps list and no api_calls list was transformed
C14_Witness ==
    /\ Len(outs) > 0
    /\ {"status", "latency_ms", "query", "num_sources"} \subseteq DOMAIN doc
    /\ "steps" \in DOMAIN doc
    /\ doc.steps = <<>>
    /\ "api_calls" \notin DOMAIN doc
\* the document has none of the keys in K
Lacks(d, K) == K \cap DOMAIN d = {}

\* a timestamp taken from the clock during the calls made so far
FromClock(ts) == ts[1] = "iso" /\ ts[2] \in 0..now

\* the fields of the agent_run record that are null when the document has
\* no value for them, and its timestamps
AgentRunDefaults(run) ==
    /\ Lacks(doc, {"event_id"}) => run.run_id = None
    /\ Lacks(doc, {"company_name", "query"}) => run.company_name = None
    /\ Lacks(doc, {"industry"}) => run.industry = None
    /\ Lacks(doc, {"status"}) => run.status = None
    /\ Lacks(doc, {"latency_ms"}) => run.total_latency_ms = NoneN
    /\ Lacks(doc, {"error_message"}) => run.error_message = None
    /\ Lacks(doc, {"started_at_utc", "timestamp_utc"}) => FromClock(run.started_at)
    /\ Lacks(doc, {"completed_at_utc", "timestamp_utc"}) => FromClock(run.completed_at)

\* the same for a run_step record built from the step entry e
RunStepDefaults(r, e) ==
    /\ Lacks(doc, {"event_id"}) => r.run_id = None
    /\ (Lacks(e, {"status"}) /\ Lacks(doc, {"status"})) => r.status = None
    /\ (Lacks(e, {"latency_ms"}) /\ Lacks(doc, {"latency_ms"})) => r.latency_ms = NoneN
    /\ Lacks(e, {"error"}) => r.error_message = None

\* the same for an api_call record built from the call entry e
ApiCallDefaults(r, e) ==
    /\ Lacks(doc, {"event_id"}) => r.run_id = None
    /\ (Lacks(e, {"query"}) /\ Lacks(doc, {"query"})) => r.query_used = None
    /\ (Lacks(e, {"latency_ms"}) /\ Lacks(doc, {"latency_ms"})) => r.latency_ms = NoneN
    /\ (Lacks(e, {"called_at"}) /\ Lacks(doc, {"timestamp_utc"})) => FromClock(r.called_at)

\* C15 as stated: every field for which the input has no value is null, the
\* timestamps excepted.
C15_Original ==
    \A k \in 1..Len(outs) :
        LET st == RecordsOfType(outs[k], "run_step")
            ca == RecordsOfType(outs[k], "api_call")
        IN /\ AgentRunDefaults(outs[k][1])
           /\ (NCalls(doc) = 0 /\ Lacks(doc, {"num_sources"}))
                 => outs[k][1].total_api_calls = NoneN
           /\ \A i \in 1..NSteps(doc) :
                 /\ RunStepDefaults(st[i], doc.steps[i])
                 /\ Lacks(doc.steps[i], {"step_name"}) => st[i].step_name = None
           /\ \A i \in 1..NCalls(doc) :
                 /\ ApiCallDefaults(ca[i], doc.api_calls[i])
                 /\ (Lacks(doc.api_calls[i], {"results_returned"})
                        /\ Lacks(doc, {"num_sources"}))
                      => ca[i].results_returned = NoneN

\* C15 (amended): every field for which neither the entry nor the document
\* has a value is null, except the timestamps, which take the current time,
\* the counts total_api_calls and results_returned, which are 0, and
\* step_name, which is "research"; a value missing from a step or call entry
\* is taken from the document when the document has it.
C15_MissingDefaults ==
    \A k \in 1..Len(outs) :
        LET st == RecordsOfType(outs[k], "run_step")
            ca == RecordsOfType(outs[k], "api_call")
        IN /\ AgentRunDefaults(outs[k][1])
           /\ (NCalls(doc) = 0 /\ Lacks(doc, {"num_sources"}))
                 => outs[k][1].total_api_calls = 0
           /\ \A i \in 1..NSteps(doc) :
                 LET e == doc.steps[i]
                 IN /\ RunStepDefaults(st[i], e)
                    /\ Lacks(e, {"step_name"}) => st[i].step_name = "research"
                    /\ (Lacks(e, {"status"}) /\ ~Lacks(doc, {"status"}))
                          => st[i].status = doc.status
                    /\ (Lacks(e, {"latency_ms"}) /\ ~Lacks(doc, {"latency_ms"}))
                          => st[i].latency_ms = doc.latency_ms
           /\ \A i \in 1..NCalls(doc) :
                 LET e == doc.api_calls[i]
                 IN /\ ApiCallDefaults(ca[i], e)
                    /\ Lacks(e, {"results_returned"})
                          => ca[i].results_returned = Get(doc, "num_sources", 0)
                    /\ (Lacks(e, {"query"}) /\ ~Lacks(doc, {"query"}))
                          => ca[i].query_used = doc.query
                    /\ (Lacks(e, {"latency_ms"}) /\ ~Lacks(doc, {"latency_ms"}))
                          => ca[i].latency_ms = doc.latency_ms
                    /\ (Lacks(e, {"called_at"}) /\ ~Lacks(doc, {"timestamp_utc"}))
                          => ca[i].called_at = doc.timestamp_utc

\* a document that has nothing but a step entry and a call entry without
\* keys was transformed
C15_Witness ==
    /\ Len(outs) > 0
    /\ DOMAIN doc = {"steps", "api_calls"}
    /\ doc.steps = <<EmptyDict>>
    /\ doc.api_calls = <<EmptyDict>>
(***************************************************************************)
(* Claims about the effects of the shaping transform (SpecShape).          *)
(***************************************************************************)
\* C16: a call of the transform changes neither the document it is given,
\* its steps and api_calls lists and their entries included, nor the
\* document store, and hands nothing to the delivery stream.
C16_NoSideEffects ==
    [][/\ doc' = doc
       /\ store' = store
       /\ puts' = puts
       /\ sb_pc' = sb_pc]_vars

\* a document with steps, api_calls and a datetime timestamp was transformed
\* twice
C16_Witness ==
    /\ Len(outs) = 2
    /\ NSteps(doc) > 0
    /\ NCalls(doc) > 0
    /\ "timestamp_utc" \in DOMAIN doc
    /\ doc.timestamp_utc[1] = "dt"
\* C17: the integer send_batch returns is the number of records of its input
\* that the delivery stream accepted: it lies between 0 and len(records),
\* counts no record the stream rejected and leaves out no record the stream
\* accepted, those of a batch answered with FailedPutCount > 0 included.
C17_ReturnCountsAccepted ==
    sb_pc = "done" =>
        /\ sb_ret \in 0..Len(records)
        /\ sb_ret <= Cardinality(accepted)
        /\ sb_ret >= Cardinality(accepted)
(***************************************************************************)
(* Claims about the report of the relay step (SpecRun).                    *)
(***************************************************************************)
\* the relay step of run_research is under way
InRelay == pc \in {"relay", "relay_send"}

\* every record of the run's fan-out has been accepted by the stream
RunDelivered == pc = "relay_send" /\ accepted = 1..Len(records)

\* C18: whenever the relay step, asked for, ends without every record of the
\* run accepted by the stream, the result carries a firehose_error and does
\* not say sent (so that main prints neither "sent" nor "skipped").
C18_UndeliveredReported ==
    [][(InRelay /\ ~InRelay' /\ flags.stream_to_firehose /\ ~RunDelivered)
          => (result'.firehose_error # None /\ ~result'.firehose_sent)]_vars

(***************************************************************************)
(* Claims about construction (SpecConstruct)                               *)
(***************************************************************************)
\* what each component requires of the configuration
Configured(c, e) ==
    CASE c = "CompanyResearcher" -> e.tavily_key
      [] c = "MongoDBClient"     -> e.mongo_uri
      [] c = "FirehoseClient"    -> e.stream_name /\ e.aws_keys
      [] c = "MetadataStreamer"  -> e.stream_name /\ e.aws_keys
      [] c = "SnowflakeClient"   -> e.snowflake

FailedAtConstruction(c) ==
    components[c].status \in {"unbuilt", "ValueError"} /\ components[c].ops = {}

\* C19: a component constructed without its required credentials or
\* identifiers fails at construction with a configuration error, and no
\* operation is attempted on it
C19_FailsAtConstruction ==
    \A c \in Components : ~Configured(c, env) => FailedAtConstruction(c)

\* the same for the components other than the MetadataStreamer
ClientsFailAtConstruction ==
    \A c \in Components \ {"MetadataStreamer"} :
        ~Configured(c, env) => FailedAtConstruction(c)

(***************************************************************************)
(* Claims about the steps and calls of a research run (SpecRun)            *)
(***************************************************************************)
\* research() has returned and its steps ran to the end
StepsRanToEnd == Finished("research") /\ ~Truthy(state.error)

StepNames == [i \in 1..Len(state.steps) |-> state.steps[i].step_name]

\* the provider an external call of a step goes to
ProviderOf(step_name) == IF step_name = "summarize" THEN "openai" ELSE "tavily"

CallsTo(provider) ==
    {j \in 1..Len(state.api_calls) : state.api_calls[j].provider = provider}

\* C20: a ResearchRun whose steps ran to the end has exactly the three step
\* entries search_overview, search_competitors, summarize in this order, each
\* with status success, failure or skipped, and exactly one api_call entry per
\* external call made: two search calls (also when the search failed) plus
\* one summarization call only when the LLM client is configured; a skipped
\* summarize step records no api_call
C20_StepsAndCalls ==
    StepsRanToEnd =>
        /\ StepNames = <<"search_overview", "search_competitors", "summarize">>
        /\ \A i \in 1..Len(state.steps) :
             state.steps[i].status \in {"success", "failure", "skipped"}
        /\ Len(state.api_calls) = Len(extcalls)
        /\ \A j \in 1..Len(extcalls) :
             state.api_calls[j].provider = ProviderOf(extcalls[j].step)
        /\ Cardinality(CallsTo("tavily")) = 2
        /\ Cardinality(CallsTo("openai")) = (IF env.openai THEN 1 ELSE 0)
        /\ (state.steps[3].status = "skipped") = ~env.openai
        /\ state.steps[3].status = "skipped" => Len(state.api_calls) = 2

\* a run with a failed search and a skipped summarize step
C20_Witness ==
    /\ StepsRanToEnd
    /\ extcalls[1].err # None
    /\ state.steps[3].status = "skipped"

\* a run with the three external calls made
C20_WitnessLLM ==
    /\ StepsRanToEnd
    /\ Len(state.api_calls) = 3


(***************************************************************************)
(* Claims about the date-range query (SpecQuery)                           *)
(***************************************************************************)
TsOf(d) == d.timestamp_utc[2]

\* the result has at most limit documents, all inside the inclusive bounds
\* [lo, end_date], in ascending order of timestamp
RangeResult(lo) ==
    /\ Len(qry.result) <= qry.limit
    /\ \A i \in 1..Len(qry.result) :
         lo <= TsOf(qry.result[i]) /\ TsOf(qry.result[i]) <= qry.end_date
    /\ \A i \in 1..(Len(qry.result) - 1) :
         TsOf(qry.result[i]) <= TsOf(qry.result[i + 1])

\* C21: a date-range query supplied with only an end date uses a fixed epoch
\* floor as its start bound (it returns what the query from the floor
\* returns); every date-range query returns at most limit documents, all
\* with a timestamp inside the inclusive bounds, sorted ascending
C21_DateRangeQuery ==
    qry.called =>
        \* a query without start date starts from the epoch, time 0: no
        \* document is older
        LET lo == IF qry.start_date = NoneN THEN 0 ELSE qry.start_date
        IN /\ qry.result = get_metadata_by_date_range(store, lo, qry.end_date,
                                                      qry.limit)
           /\ RangeResult(lo)

\* the part of C21 about queries with both bounds
BoundedRangeQuery ==
    (qry.called /\ qry.start_date # NoneN) =>
        /\ RangeResult(qry.start_date)
        /\ Len(qry.result) =
             Min(qry.limit,
                 Cardinality({i \in 1..Len(store) :
                                 /\ qry.start_date <= TsOf(store[i])
                                 /\ TsOf(store[i]) <= qry.end_date}))


(***************************************************************************)
(* Claims about the flags of an invocation (SpecRun)                       *)
(***************************************************************************)
\* C22: when --no-firehose is given (stream_to_firehose false) the invocation
\* does not stream to the delivery stream: no put_record_batch call is made
\* during it and firehose_sent stays false, whatever the other flags are
C22_NoFirehoseNoStreaming ==
    ~flags.stream_to_firehose => (puts = <<>> /\ ~result.firehose_sent)

\* the part of C22 about the relay step alone
NoFirehoseNoRelay ==
    ~flags.stream_to_firehose =>
        /\ ~result.firehose_sent
        /\ ~Attempted("relay")
        /\ puts # <<>> => (pc = "backfill_send" /\ flags.backfill_firehose)


(***************************************************************************)
(* Claims about what send_batch resends (SpecSend)                         *)
(***************************************************************************)
\* a put_record_batch call is made in this step
PutMade == Len(puts') = Len(puts) + 1

\* the positions in records of the records the call of this step carries
PutPositions ==
    LET p == puts'[Len(puts')]
    IN {p.i + k : k \in 1..Len(PutRecords(p))}

\* C24: on a partial batch failure the retry resends only the records that
\* failed: within one send_batch call no record the stream already accepted
\* is sent to the stream again
C24_ResendsOnlyFailed ==
    [][PutMade => PutPositions \cap accepted = {}]_vars


(***************************************************************************)
(* Claims about the status of a run (SpecRun)                              *)
(***************************************************************************)
\* the metadata of the run reports success
ReportedSuccess ==
    metadata.status = "success" /\ metadata.error_message = None

\* C25: a run is reported as successful (metadata status "success", null
\* error_message, exit code 0) only if at least one search step succeeded; a
\* run whose search steps all failed, for which research() sets
\* research_complete to false, is recorded with status "failure" and yields
\* exit code 1
C25_SuccessNeedsASearch ==
    /\ (Finished("collect") /\ ReportedSuccess) => has_sources(state)
    /\ exit_code = 0 => has_sources(state)
    /\ (Finished("collect") /\ ~state.research_complete) =>
          metadata.status = "failure"
    /\ (exit_code # NoneN /\ Finished("research") /\ ~state.research_complete) =>
          exit_code = 1


(***************************************************************************)
(* Claims about the copies of a run on the stream (SpecRun)                *)
(***************************************************************************)
\* the run_id of the records of this invocation's run
ThisRun == metadata.event_id

\* the agent_run records of run rid among the Records of the logged call p
AgentRunsIn(p, rid) ==
    {k \in 1..Len(batch(records, p.i)) :
        /\ batch(records, p.i)[k].record_type = "agent_run"
        /\ batch(records, p.i)[k].run_id = rid}

\* the relay step of this invocation has sent every record of the run, its
\* agent_run record among them (stream_metadata returned True)
RelayedBefore == pc \notin {"relay", "relay_send"} /\ result.firehose_sent

\* the send_batch call in progress has sent an agent_run record of run rid
SendsRun(rid) == \E k \in 1..Len(puts) : AgentRunsIn(puts[k], rid) # {}

\* C26: within one pipeline invocation at most one agent_run record with a
\* given run_id is sent to the delivery stream, also when the backfill step
\* runs after the same run was persisted and relayed directly
C26_OneAgentRunPerRunId ==
    ~(RelayedBefore /\ pc = "backfill_send" /\ SendsRun(ThisRun))


(***************************************************************************)
(* Claims about the errors of put_record_batch (SpecSend)                  *)
(***************************************************************************)
\* C27: a credentials rejection is permanent: send_batch raises ValueError at
\* its first occurrence, without retrying the batch and without sending any
\* later batch; any other ClientError is retried and, on the last attempt,
\* raised as a RuntimeError
C27_CredsRejectionPermanent ==
    \A k \in 1..Len(puts) :
        /\ puts[k].outcome = "creds_error" =>
              /\ k = Len(puts)
              /\ sb_pc = "raised"
              /\ sb_exc = "ValueError"
              /\ sb_ret = NoneN
        /\ (puts[k].outcome = "client_error" /\ ~LastAttempt(k)) =>
              /\ ~(sb_pc = "raised" /\ k = Len(puts))
              /\ k < Len(puts) => BatchOf(k + 1) = BatchOf(k)
              /\ (k = Len(puts) /\ sb_pc = "batch") =>
                    sb_i = BatchSize * BatchOf(k) /\ attempt > 0
        /\ (puts[k].outcome = "client_error" /\ LastAttempt(k)) =>
              /\ k = Len(puts)
              /\ sb_pc = "raised"
              /\ sb_exc = "RuntimeError"

\* the stream rejects the credentials at the second attempt of the first of
\* two batches, after a ClientError that was retried
C27_Witness ==
    /\ Len(records) = 30
    /\ max_retries = 3
    /\ Len(puts) = 2
    /\ puts[1].outcome = "client_error"
    /\ puts[2].outcome = "creds_error"
    /\ sb_pc = "raised"


(***************************************************************************)
(* Claims about the call count of a run (SpecShapeSparse)                  *)
(***************************************************************************)
ApiCallsEmitted(o) == Len(RecordsOfType(o, "api_call"))

\* C28 as stated: for every metadata document the total_api_calls of the
\* agent_run record equals the number of api_call records the transform
\* emits for the run
C28_Original ==
    \A k \in 1..Len(outs) : outs[k][1].total_api_calls = ApiCallsEmitted(outs[k])

\* C28 (amended): for a document with a non-empty api_calls list the
\* total_api_calls of the agent_run record equals the number of api_call
\* records emitted; for a document whose list is absent or empty exactly one
\* api_call record is emitted and total_api_calls is the document's
\* num_sources (0 when it has none)
C28_CallCount ==
    \A k \in 1..Len(outs) :
        IF NCalls(doc) > 0
        THEN /\ outs[k][1].total_api_calls = ApiCallsEmitted(outs[k])
             /\ ApiCallsEmitted(outs[k]) = NCalls(doc)
        ELSE /\ ApiCallsEmitted(outs[k]) = 1
             /\ outs[k][1].total_api_calls = Get(doc, "num_sources", 0)

\* a document with two api_calls was transformed
C28_Witness ==
    /\ Len(outs) > 0
    /\ NCalls(doc) = 2


(***************************************************************************)
(* Claims about the operations of the streamer (SpecStream)                *)
(***************************************************************************)
OpEnded == stream_op.status \in {"returned", "raised"}

\* C23: after any relay operation (stream_metadata, stream_recent,
\* stream_since) ends, whether send_batch returned or raised, every run_step
\* and api_call record the stream has accepted has the run_id of an
\* agent_run record the stream has also accepted
C23_AcceptedChildrenHaveRun ==
    OpEnded =>
        \A w \in wire : w[1] # "agent_run" => <<"agent_run", w[2]>> \in wire


\* the records of the fan-out of a document: 1 agent_run plus its run_step
\* and api_call records
FanOut(d) == 1 + Max1(NSteps(d)) + Max1(NCalls(d))

\* the streamer lacks its MongoDB client or its Firehose client
AClientMissing == StreamerClients # {"mongo_client", "firehose_client"}

\* C29: stream_metadata returns True if and only if a delivery-stream client
\* is available and send_batch reported every record of the run's fan-out as
\* sent; with no client it returns False without sending anything;
\* stream_recent and stream_since return 0 without contacting the stream
\* when either client is unavailable or the store returns no documents
C29_StreamerReturns ==
    stream_op.status = "returned" =>
        IF stream_op.name = "stream_metadata"
        THEN /\ (stream_op.ret = <<"bool", TRUE>>) =
                   (/\ "firehose_client" \in StreamerClients
                    /\ stream_op.handed = FanOut(metadata)
                    /\ stream_op.reported = stream_op.handed)
             /\ "firehose_client" \notin StreamerClients =>
                   /\ stream_op.ret = <<"bool", FALSE>>
                   /\ stream_op.handed = 0
                   /\ stream_op.calls = 0
        ELSE /\ (\/ AClientMissing
                 \/ stream_op.docs = 0
                 \/ store = <<>>) =>
                   /\ stream_op.ret = <<"int", 0>>
                   /\ stream_op.handed = 0
                   /\ stream_op.calls = 0
             /\ (~AClientMissing /\ store # <<>>
                   /\ stream_op.name = "stream_recent") => stream_op.handed > 0

\* stream_metadata returned True for a run of three records
C29_Witness ==
    /\ stream_op.name = "stream_metadata"
    /\ stream_op.status = "returned"
    /\ stream_op.ret = <<"bool", TRUE>>
    /\ stream_op.handed = 3

\* stream_since returned 0 because the store had no document in the range
C29_WitnessNoDocs ==
    /\ stream_op.name = "stream_since"
    /\ stream_op.status = "returned"
    /\ ~AClientMissing
    /\ store # <<>>
    /\ stream_op.docs = 0


(***************************************************************************)
(* Claims about track_execution (SpecTrack)                                *)
(***************************************************************************)
LastEntry == metadata_history[Len(metadata_history)]

\* the status a returned value stands for: that of the research state when
\* it is one, else success
StatusOfResult(value) ==
    IF is_research_state(value) /\ value.v.error # None
    THEN "failure" ELSE "success"

\* C30: every call of a function wrapped by track_execution appends exactly
\* one metadata entry to the collector's history: when the function returns,
\* an entry with status success (or the status derived from the returned
\* research state) and the result is passed through unchanged; when it
\* raises, an entry with status failure and the exception's message, and the
\* same exception is re-raised to the caller
C30_OneEntryPerCall ==
    wrapped.called =>
        /\ Len(metadata_history) = wrapped.before + 1
        /\ IF wrapped.func.kind = "return"
           THEN /\ LastEntry.status = StatusOfResult(wrapped.func.value)
                /\ wrapped.how = "return"
                /\ wrapped.what = wrapped.func.value
           ELSE /\ LastEntry.status = "failure"
                /\ LastEntry.error_message = wrapped.func.exc.msg
                /\ wrapped.how = "raise"
                /\ wrapped.what = wrapped.func.exc

\* C30 for the results that are no research state or a research state whose
\* sources are dicts
TrackedWellFormed ==
    (wrapped.called /\ wrapped.func.kind = "return"
        /\ is_research_state(wrapped.func.value)
        /\ ~sources_are_dicts(wrapped.func.value))
    \/ C30_OneEntryPerCall


====
